---------------------------- MODULE Spec2Model ----------------------------
(***************************************************************************)
(* A model of parsers/verilog.c, the Verilog / SystemVerilog tag scanner.  *)
(*                                                                         *)
(* The input file is a string; a character is a string of length one.     *)
(* Every C function of the scanner is an operator on a record `s' that     *)
(* holds the scanner's static and per-call state; a loop is a RECURSIVE    *)
(* operator.  One iteration of the top-level loop of findVerilogTags is    *)
(* two steps: the read of the next character or word, then the case of    *)
(* the switch (of the loop, or of findTag) that handles it.  The `while'   *)
(* loop of processDesignElement that skips ignored keywords is cut into    *)
(* its own actions because it need not terminate.  The grave accent of a   *)
(* compiler directive is written ~ throughout.                             *)
(***************************************************************************)
EXTENDS Integers, Sequences, FiniteSets, TLC

VARIABLES
    input,           \* the contents of the input file
    lang,            \* the input language (getInputLanguage)
    xtagQualified,   \* isXtagEnabled (XTAG_QUALIFIED_TAGS)
    prototypeKind,   \* SystemVerilogKinds[K_PROTOTYPE].enabled (a host option)
    pos,             \* number of characters read from the input file
    Ungetc,          \* static int Ungetc
    ungetcEmptyHeld, \* the assertion of vUngetc has held on every call so far
    currentContext,  \* the scope stack, sentinel first; << >> is NULL
    tagContents,     \* the queue of enum members, head first; << >> is NULL
    token,           \* findVerilogTags' token
    c,               \* findVerilogTags' c
    kind,            \* processDesignElement's kind, while its loop runs
    tags,            \* the records handed to makeTagEntry in this run
    kindsUsed,       \* the kinds that indexed the kind table in this run
    pc,              \* where the scanner is
    run,             \* which invocation of findVerilogTags this is
    firstTags,       \* the records the first invocation emitted
    edit,            \* what the host inserted into the file before this run
    editAt           \* after how many characters of the file it did

vars == <<input, lang, xtagQualified, prototypeKind, pos, Ungetc,
          ungetcEmptyHeld, currentContext, tagContents, token, c, kind,
          tags, kindsUsed, pc, run, firstTags, edit, editAt>>

(***************************************************************************)
(* verilogKind                                                             *)
(***************************************************************************)
K_IGNORE == -16
K_DEFINE == -15
K_DIRECTIVE == -14
K_BEGIN == -13
K_END == -12
K_END_DE == -11
K_IDENTIFIER == -10
K_LOCALPARAM == -9
K_PARAMETER == -8
K_UNDEFINED == -1
K_CONSTANT == 0
K_EVENT == 1
K_FUNCTION == 2
K_MODULE == 3
K_NET == 4
K_PORT == 5
K_REGISTER == 6
K_TASK == 7
K_BLOCK == 8
K_ASSERTION == 9
K_CLASS == 10
K_COVERGROUP == 11
K_ENUM == 12
K_INTERFACE == 13
K_MODPORT == 14
K_PACKAGE == 15
K_PROGRAM == 16
K_PROTOTYPE == 17
K_PROPERTY == 18
K_STRUCT == 19
K_TYPEDEF == 20

IDX_SYSTEMVERILOG == 0
IDX_VERILOG == 1

Lang_systemverilog == "SystemVerilog"
Lang_verilog == "Verilog"

(***************************************************************************)
(* The kind tables: the name of each kind, indexed by kind + 1.            *)
(***************************************************************************)
VerilogKinds ==
  << "constant", "event", "function", "module", "net", "port", "register",
     "task", "block" >>

SystemVerilogKinds ==
  << "constant", "event", "function", "module", "net", "port", "register",
     "task", "block", "assert", "class", "covergroup", "enum", "interface",
     "modport", "package", "program", "prototype", "property", "struct",
     "typedef" >>

KeywordTable ==
  <<
    [keyword |-> "~define", kind |-> K_DEFINE, isValid |-> <<1, 1>>],
    [keyword |-> "begin", kind |-> K_BEGIN, isValid |-> <<1, 1>>],
    [keyword |-> "end", kind |-> K_END, isValid |-> <<1, 1>>],
    [keyword |-> "endfunction", kind |-> K_END_DE, isValid |-> <<1, 1>>],
    [keyword |-> "endmodule", kind |-> K_END_DE, isValid |-> <<1, 1>>],
    [keyword |-> "endtask", kind |-> K_END_DE, isValid |-> <<1, 1>>],
    [keyword |-> "event", kind |-> K_EVENT, isValid |-> <<1, 1>>],
    [keyword |-> "fork", kind |-> K_BEGIN, isValid |-> <<1, 1>>],
    [keyword |-> "function", kind |-> K_FUNCTION, isValid |-> <<1, 1>>],
    [keyword |-> "genvar", kind |-> K_REGISTER, isValid |-> <<1, 1>>],
    [keyword |-> "inout", kind |-> K_PORT, isValid |-> <<1, 1>>],
    [keyword |-> "input", kind |-> K_PORT, isValid |-> <<1, 1>>],
    [keyword |-> "integer", kind |-> K_REGISTER, isValid |-> <<1, 1>>],
    [keyword |-> "join", kind |-> K_END, isValid |-> <<1, 1>>],
    [keyword |-> "localparam", kind |-> K_LOCALPARAM, isValid |-> <<1, 1>>],
    [keyword |-> "module", kind |-> K_MODULE, isValid |-> <<1, 1>>],
    [keyword |-> "output", kind |-> K_PORT, isValid |-> <<1, 1>>],
    [keyword |-> "parameter", kind |-> K_PARAMETER, isValid |-> <<1, 1>>],
    [keyword |-> "real", kind |-> K_REGISTER, isValid |-> <<1, 1>>],
    [keyword |-> "realtime", kind |-> K_REGISTER, isValid |-> <<1, 1>>],
    [keyword |-> "reg", kind |-> K_REGISTER, isValid |-> <<1, 1>>],
    [keyword |-> "signed", kind |-> K_IGNORE, isValid |-> <<1, 1>>],
    [keyword |-> "specparam", kind |-> K_CONSTANT, isValid |-> <<1, 1>>],
    [keyword |-> "supply0", kind |-> K_NET, isValid |-> <<1, 1>>],
    [keyword |-> "supply1", kind |-> K_NET, isValid |-> <<1, 1>>],
    [keyword |-> "task", kind |-> K_TASK, isValid |-> <<1, 1>>],
    [keyword |-> "time", kind |-> K_REGISTER, isValid |-> <<1, 1>>],
    [keyword |-> "tri", kind |-> K_NET, isValid |-> <<1, 1>>],
    [keyword |-> "triand", kind |-> K_NET, isValid |-> <<1, 1>>],
    [keyword |-> "trior", kind |-> K_NET, isValid |-> <<1, 1>>],
    [keyword |-> "trireg", kind |-> K_NET, isValid |-> <<1, 1>>],
    [keyword |-> "tri0", kind |-> K_NET, isValid |-> <<1, 1>>],
    [keyword |-> "tri1", kind |-> K_NET, isValid |-> <<1, 1>>],
    [keyword |-> "uwire", kind |-> K_NET, isValid |-> <<1, 1>>],
    [keyword |-> "wand", kind |-> K_NET, isValid |-> <<1, 1>>],
    [keyword |-> "wire", kind |-> K_NET, isValid |-> <<1, 1>>],
    [keyword |-> "wor", kind |-> K_NET, isValid |-> <<1, 1>>],
    [keyword |-> "assert", kind |-> K_ASSERTION, isValid |-> <<1, 0>>],
    [keyword |-> "assume", kind |-> K_ASSERTION, isValid |-> <<1, 0>>],
    [keyword |-> "bit", kind |-> K_REGISTER, isValid |-> <<1, 0>>],
    [keyword |-> "byte", kind |-> K_REGISTER, isValid |-> <<1, 0>>],
    [keyword |-> "chandle", kind |-> K_REGISTER, isValid |-> <<1, 0>>],
    [keyword |-> "class", kind |-> K_CLASS, isValid |-> <<1, 0>>],
    [keyword |-> "cover", kind |-> K_ASSERTION, isValid |-> <<1, 0>>],
    [keyword |-> "covergroup", kind |-> K_COVERGROUP, isValid |-> <<1, 0>>],
    [keyword |-> "endclass", kind |-> K_END_DE, isValid |-> <<1, 0>>],
    [keyword |-> "endgroup", kind |-> K_END_DE, isValid |-> <<1, 0>>],
    [keyword |-> "endinterface", kind |-> K_END_DE, isValid |-> <<1, 0>>],
    [keyword |-> "endpackage", kind |-> K_END_DE, isValid |-> <<1, 0>>],
    [keyword |-> "endprogram", kind |-> K_END_DE, isValid |-> <<1, 0>>],
    [keyword |-> "endproperty", kind |-> K_END_DE, isValid |-> <<1, 0>>],
    [keyword |-> "enum", kind |-> K_ENUM, isValid |-> <<1, 0>>],
    [keyword |-> "extern", kind |-> K_PROTOTYPE, isValid |-> <<1, 0>>],
    [keyword |-> "int", kind |-> K_REGISTER, isValid |-> <<1, 0>>],
    [keyword |-> "interconnect", kind |-> K_NET, isValid |-> <<1, 0>>],
    [keyword |-> "interface", kind |-> K_INTERFACE, isValid |-> <<1, 0>>],
    [keyword |-> "join_any", kind |-> K_END, isValid |-> <<1, 0>>],
    [keyword |-> "join_none", kind |-> K_END, isValid |-> <<1, 0>>],
    [keyword |-> "logic", kind |-> K_REGISTER, isValid |-> <<1, 0>>],
    [keyword |-> "longint", kind |-> K_REGISTER, isValid |-> <<1, 0>>],
    [keyword |-> "modport", kind |-> K_MODPORT, isValid |-> <<1, 0>>],
    [keyword |-> "package", kind |-> K_PACKAGE, isValid |-> <<1, 0>>],
    [keyword |-> "program", kind |-> K_PROGRAM, isValid |-> <<1, 0>>],
    [keyword |-> "property", kind |-> K_PROPERTY, isValid |-> <<1, 0>>],
    [keyword |-> "pure", kind |-> K_PROTOTYPE, isValid |-> <<1, 0>>],
    [keyword |-> "ref", kind |-> K_PORT, isValid |-> <<1, 0>>],
    [keyword |-> "sequence", kind |-> K_PROPERTY, isValid |-> <<1, 0>>],
    [keyword |-> "shortint", kind |-> K_REGISTER, isValid |-> <<1, 0>>],
    [keyword |-> "shortreal", kind |-> K_REGISTER, isValid |-> <<1, 0>>],
    [keyword |-> "string", kind |-> K_REGISTER, isValid |-> <<1, 0>>],
    [keyword |-> "struct", kind |-> K_STRUCT, isValid |-> <<1, 0>>],
    [keyword |-> "type", kind |-> K_REGISTER, isValid |-> <<1, 0>>],
    [keyword |-> "typedef", kind |-> K_TYPEDEF, isValid |-> <<1, 0>>],
    [keyword |-> "union", kind |-> K_STRUCT, isValid |-> <<1, 0>>],
    [keyword |-> "var", kind |-> K_REGISTER, isValid |-> <<1, 0>>],
    [keyword |-> "void", kind |-> K_REGISTER, isValid |-> <<1, 0>>]
  >>

verilogKeywords ==
  [value |-> K_IGNORE, addingUnlessExisting |-> TRUE, keywords |->
   <<
    "always", "and", "assign", "automatic", "begin", "buf", "bufif0",
    "bufif1", "case", "casex", "casez", "cell", "cmos", "config",
    "deassign", "default", "defparam", "design", "disable", "edge", "else",
    "end", "endcase", "endconfig", "endfunction", "endgenerate",
    "endmodule", "endprimitive", "endspecify", "endtable", "endtask",
    "event", "for", "force", "forever", "fork", "function", "generate",
    "genvar", "highz0", "highz1", "if", "ifnone", "incdir", "include",
    "initial", "inout", "input", "instance", "integer", "join", "large",
    "liblist", "library", "localparam", "macromodule", "medium", "module",
    "nand", "negedge", "nmos", "nor", "noshowcancelled", "not", "notif0",
    "notif1", "or", "output", "parameter", "pmos", "posedge", "primitive",
    "pull0", "pull1", "pulldown", "pullup", "pulsestyle_onevent",
    "pulsestyle_ondetect", "rcmos", "real", "realtime", "reg", "release",
    "repeat", "rnmos", "rpmos", "rtran", "rtranif0", "rtranif1",
    "scalared", "showcancelled", "signed", "small", "specify", "specparam",
    "strong0", "strong1", "supply0", "supply1", "table", "task", "time",
    "tran", "tranif0", "tranif1", "tri", "tri0", "tri1", "triand", "trior",
    "trireg", "unsigned1", "use", "uwire", "vectored", "wait", "wand",
    "weak0", "weak1", "while", "wire", "wor", "xnor", "xor"
   >>]

systemVerilogKeywords ==
  [value |-> K_IGNORE, addingUnlessExisting |-> TRUE, keywords |->
   <<
    "accept_on", "alias", "always", "always_comb", "always_ff",
    "always_latch", "and", "assert", "assign", "assume", "automatic",
    "before", "begin", "bind", "bins", "binsof", "bit", "break", "buf",
    "bufif0", "bufif1", "byte", "case", "casex", "casez", "cell",
    "chandle", "checker", "class", "clocking", "cmos", "config", "const",
    "constraint", "context", "continue", "cover", "covergroup",
    "coverpoint", "cross", "deassign", "default", "defparam", "design",
    "disable", "dist", "do", "edge", "else", "end", "endcase",
    "endchecker", "endclass", "endclocking", "endconfig", "endfunction",
    "endgenerate", "endgroup", "endinterface", "endmodule", "endpackage",
    "endprimitive", "endprogram", "endproperty", "endspecify",
    "endsequence", "endtable", "endtask", "enum", "event", "eventually",
    "expect", "export", "extends", "extern", "final", "first_match", "for",
    "force", "foreach", "forever", "fork", "forkjoin", "function",
    "generate", "genvar", "global", "highz0", "highz1", "if", "iff",
    "ifnone", "ignore_bins", "illegal_bins", "implements", "implies",
    "import", "incdir", "include", "initial", "inout", "input", "inside",
    "instance", "int", "integer", "interconnect", "interface", "intersect",
    "join", "join_any", "join_none", "large", "let", "liblist", "library",
    "local", "localparam", "logic", "longint", "macromodule", "matches",
    "medium", "modport", "module", "nand", "negedge", "nettype", "new",
    "nexttime", "nmos", "nor", "noshowcancelled", "not", "notif0",
    "notif1", "null", "or", "output", "package", "packed", "parameter",
    "pmos", "posedge", "primitive", "priority", "program", "property",
    "protected", "pull0", "pull1", "pulldown", "pullup",
    "pulsestyle_ondetect", "pulsestyle_onevent", "pure", "rand", "randc",
    "randcase", "randsequence", "rcmos", "real", "realtime", "ref", "reg",
    "reject_on", "release", "repeat", "restrict", "return", "rnmos",
    "rpmos", "rtran", "rtranif0", "rtranif1", "s_always", "s_eventually",
    "s_nexttime", "s_until", "s_until_with", "scalared", "sequence",
    "shortint", "shortreal", "showcancelled", "signed", "small", "soft",
    "solve", "specify", "specparam", "static", "string", "strong",
    "strong0", "strong1", "struct", "super", "supply0", "supply1",
    "sync_accept_on", "sync_reject_on", "table", "tagged", "task", "this",
    "throughout", "time", "timeprecision", "timeunit", "tran", "tranif0",
    "tranif1", "tri", "tri0", "tri1", "triand", "trior", "trireg", "type",
    "typedef", "union", "unique", "unique0", "unsigned", "until",
    "until_with", "untyped", "use", "uwire", "var", "vectored", "virtual",
    "void", "wait", "wait_order", "wand", "weak", "weak0", "weak1",
    "while", "wildcard", "wire", "with", "within", "wor", "xnor", "xor"
   >>]

verilogDirectives ==
  [value |-> K_DIRECTIVE, addingUnlessExisting |-> TRUE, keywords |->
   <<
    "~begin_keywords", "~celldefine", "~default_nettype", "~define",
    "~else", "~elsif", "~end_keywords", "~endcelldefine", "~endif",
    "~ifdef", "~ifndef", "~include", "~line", "~nounconnected_drive",
    "~pragma", "~resetall", "~timescale", "~unconnected_drive", "~undef"
   >>]

systemVerilogDirectives ==
  [value |-> K_DIRECTIVE, addingUnlessExisting |-> TRUE, keywords |->
   <<
    "~__LINE__", "~begin_keywords", "~celldefine", "~default_nettype",
    "~define", "~else", "~elsif", "~end_keywords", "~endcelldefine",
    "~endif", "~ifdef", "~ifndef", "~include", "~line",
    "~nounconnected_drive", "~pragma", "~resetall", "~timescale",
    "~unconnected_drive", "~undef", "~undefineall"
   >>]

(***************************************************************************)
(* Characters.  EOF is the value getcFromInputFile returns at end of       *)
(* file; NUL is '\0', the value of an empty pushback slot.  A TLA+ string  *)
(* cannot hold a grave accent: the model writes it ~ everywhere.           *)
(***************************************************************************)
EOF == "<EOF>"
NUL == "<NUL>"

Lower ==
  { "a", "b", "c", "d", "e", "f", "g", "h", "i", "j", "k", "l", "m", "n",
    "o", "p", "q", "r", "s", "t", "u", "v", "w", "x", "y", "z" }

Upper ==
  { "A", "B", "C", "D", "E", "F", "G", "H", "I", "J", "K", "L", "M", "N",
    "O", "P", "Q", "R", "S", "T", "U", "V", "W", "X", "Y", "Z" }

Digit == { "0", "1", "2", "3", "4", "5", "6", "7", "8", "9" }

isalpha(ch) == ch \in Lower \/ ch \in Upper

isalnum(ch) == isalpha(ch) \/ ch \in Digit

isspace(ch) == ch \in { " ", "\t", "\n", "\r", "\f" }

isFirstIdentifierCharacter(ch) == isalpha(ch) \/ ch = "_" \/ ch = "~"

isIdentifierCharacter(ch) ==
    isalnum(ch) \/ ch = "_" \/ ch = "~" \/ ch = "$"

CharAt(str, i) == SubSeq(str, i, i)

(***************************************************************************)
(* Keyword registration and lookup (keyword.c of the host).                *)
(***************************************************************************)
RECURSIVE IndexOf(_, _, _)
IndexOf(seq, x, i) ==
    IF i > Len(seq) THEN 0
    ELSE IF seq[i] = x THEN i
    ELSE IndexOf(seq, x, i + 1)

\* the hash table is the sequence of its entries, oldest first
KEYWORD_NONE == -1

lookupKeywordIn(hash, name) ==
    LET found == {i \in DOMAIN hash : hash[i].keyword = name}
    IN  IF found = {} THEN KEYWORD_NONE
        ELSE hash[CHOOSE i \in found : \A j \in found : i <= j].value

HashEntries(keywords, value) ==
    [i \in 1..Len(keywords) |-> [keyword |-> keywords[i], value |-> value]]

\* addKeywordGroup: every keyword of the group, in order, unless the group
\* adds only the ones the table does not have yet
addKeywordGroup(hash, group) ==
    hash \o HashEntries(
               IF group.addingUnlessExisting
               THEN SelectSeq(group.keywords,
                      LAMBDA kw : lookupKeywordIn(hash, kw) = KEYWORD_NONE)
               ELSE group.keywords,
               group.value)

KeywordEntries(table) ==
    [i \in 1..Len(table) |->
        [keyword |-> table[i].keyword, value |-> table[i].kind]]

\* buildKeywordHash without the test of isValid
buildKeywordHashOfAnyLanguage(idx) == KeywordEntries(KeywordTable)

\* buildKeywordHash: the entries of KeywordTable valid for the language
buildKeywordHash(idx) ==
    KeywordEntries(SelectSeq(KeywordTable, LAMBDA p : p.isValid[idx + 1] = 1))

\* initializeVerilog with the keyword groups registered before KeywordTable
initializeVerilogGroupsFirst ==
    addKeywordGroup(addKeywordGroup(<< >>, verilogKeywords),
                    verilogDirectives)
        \o buildKeywordHash(IDX_VERILOG)

initializeVerilog ==
    addKeywordGroup(
        addKeywordGroup(buildKeywordHash(IDX_VERILOG), verilogKeywords),
        verilogDirectives)

initializeSystemVerilog ==
    addKeywordGroup(
        addKeywordGroup(buildKeywordHash(IDX_SYSTEMVERILOG),
                        systemVerilogKeywords),
        systemVerilogDirectives)

lookupKeyword(name, language) ==
    LET hash == IF language = Lang_systemverilog
                THEN initializeSystemVerilog
                ELSE initializeVerilog
    IN  lookupKeywordIn(hash, name)

isInputLanguage(language) == lang = language

(***************************************************************************)
(* Calls.  Do (f, s) is the call of the function named f in state s, and   *)
(* DoWith (f, s, a) its call with the further arguments a; Call, below,    *)
(* holds the name of every function.                                       *)
(***************************************************************************)
RECURSIVE Call(_, _, _)

Do(f, s) == Call(f, s, << >>)

DoWith(f, s, a) == Call(f, s, a)

(***************************************************************************)
(* tokenInfo.  The `scope' link is the position in a sequence.             *)
(***************************************************************************)
NewTokenAt(filePosition) ==
    [ kind         |-> K_UNDEFINED,
      name         |-> "",
      filePosition |-> filePosition,
      nestLevel    |-> 0,
      lastKind     |-> K_UNDEFINED,
      blockName    |-> "",
      inheritance  |-> "",
      prototype    |-> FALSE,
      classScope   |-> FALSE,
      parameter    |-> FALSE,
      hasParamList |-> FALSE ]

\* clearToken, and newToken, which returns a cleared token
clearToken(s) == NewTokenAt(s.pos)

newToken(s) == clearToken(s)

dupToken(tok) == tok

\* pushToken: tokenPush becomes the head of the list
pushToken(list, tokenPush) == <<tokenPush>> \o list

\* appendToken: tokenAppend becomes the tail of the list
appendToken(list, tokenAppend) == Append(list, tokenAppend)

\* popToken on a list whose head is first
popToken(list) == IF list = << >> THEN << >> ELSE Tail(list)

pruneTokens(list) == << >>

(***************************************************************************)
(* The scope stack.  currentContext is the last element of the sequence;   *)
(* the empty sequence is the NULL pointer.                                 *)
(***************************************************************************)
NullContext == NewTokenAt(0)

Current(s) ==
    IF s.currentContext = << >> THEN NullContext
    ELSE s.currentContext[Len(s.currentContext)]

Parent(s) ==
    IF Len(s.currentContext) < 2 THEN NullContext
    ELSE s.currentContext[Len(s.currentContext) - 1]

HasParent(s) == Len(s.currentContext) >= 2

\* an assignment  currentContext->field = ...  given the whole new frame
SetCurrent(s, frame) ==
    IF s.currentContext = << >> THEN s
    ELSE [s EXCEPT !.currentContext[Len(s.currentContext)] = frame]

\* currentContext = popToken (currentContext)
PopContext(s) ==
    IF s.currentContext = << >> THEN s
    ELSE [s EXCEPT !.currentContext =
              SubSeq(s.currentContext, 1, Len(s.currentContext) - 1)]

(***************************************************************************)
(* The character stream.                                                   *)
(***************************************************************************)
getcFromInputFile(s) ==
    IF s.pos < Len(input)
    THEN [s EXCEPT !.c = CharAt(input, s.pos + 1), !.pos = s.pos + 1]
    ELSE [s EXCEPT !.c = EOF]

ungetcToInputFile(s) == [s EXCEPT !.pos = s.pos - 1]

vUngetc(s, ch) ==
    [s EXCEPT !.ungetcEmptyHeld = s.ungetcEmptyHeld /\ s.Ungetc = NUL,
              !.Ungetc = ch]

SkipOverCCommentLoop(s) ==
    IF s.c = EOF THEN s
    ELSE IF s.c # "*" THEN Do("SkipOverCCommentLoop", getcFromInputFile(s))
    ELSE LET n == getcFromInputFile(s)
         IN  IF n.c # "/" THEN Do("SkipOverCCommentLoop", n)
             ELSE [n EXCEPT !.c = " "]

\* a comment replaced by the filler of a string instead of a space
verilogSkipOverCCommentAsFiller(s) ==
    [Do("SkipOverCCommentLoop", getcFromInputFile(s)) EXCEPT !.c = "@"]

\* lines 563-585
verilogSkipOverCComment(s) == Do("SkipOverCCommentLoop", getcFromInputFile(s))

SkipLineComment(s) ==
    LET n == getcFromInputFile(s)
    IN  IF n.c # "\n" /\ n.c # EOF THEN Do("SkipLineComment", n) ELSE n

\* a letter for a string
StringFillerLetter == "a"

\* line 623: what vGetc returns for a string
StringFiller == "@"

SkipString(s) ==
    LET n == getcFromInputFile(s)
    IN  IF n.c # "\"" /\ n.c # EOF THEN Do("SkipString", n) ELSE n

\* returns the character in the field c
vGetc(s) ==
    LET s1 == IF s.Ungetc = NUL
              THEN getcFromInputFile(s)
              ELSE [s EXCEPT !.c = s.Ungetc, !.Ungetc = NUL]
    IN  IF s1.c = "/"
        THEN LET s2 == getcFromInputFile(s1)
             IN  IF s2.c = EOF THEN s2
                 ELSE IF s2.c = "/" THEN Do("SkipLineComment", s2)
                 ELSE IF s2.c = "*" THEN Do("verilogSkipOverCComment", s2)
                 ELSE [ungetcToInputFile(s2) EXCEPT !.c = "/"]
        ELSE IF s1.c = "\""
        THEN [Do("SkipString", s1) EXCEPT !.c = StringFiller]
        ELSE s1

\* skipWhite (c) with c in the field c
skipWhite(s) == IF isspace(s.c) THEN Do("skipWhite", Do("vGetc", s)) ELSE s

PastMatchLoop(s, begin, end, matchLevel) ==
    LET n == Do("vGetc", s)
        level == IF n.c = begin THEN matchLevel + 1
                 ELSE IF n.c = end THEN matchLevel - 1
                 ELSE matchLevel
    IN  IF n.c # EOF /\ level > 0
        THEN DoWith("PastMatchLoop", n, <<begin, end, level>>)
        ELSE n

skipPastMatch(s, begin, end) == Do("vGetc", DoWith("PastMatchLoop", s, <<begin, end, 1>>))

skipDimension(s) ==
    IF s.c = "[" THEN Do("skipDimension", Do("skipWhite", DoWith("skipPastMatch", s, <<"[", "]">>)))
    ELSE s

skipToSemiColon(s) ==
    LET n == Do("vGetc", s)
    IN  IF n.c # EOF /\ n.c # ";" THEN Do("skipToSemiColon", n) ELSE n

skipExpression(s) ==
    IF s.c # EOF /\ s.c # "," /\ s.c # ";" /\ s.c # ")" /\ s.c # "}"
       /\ s.c # "]"
    THEN IF s.c = "(" THEN Do("skipExpression", DoWith("skipPastMatch", s, <<"(", ")">>))
         ELSE IF s.c = "{" THEN Do("skipExpression", DoWith("skipPastMatch", s, <<"{", "}">>))
         ELSE IF s.c = "[" THEN Do("skipExpression", DoWith("skipPastMatch", s, <<"[", "]">>))
         ELSE Do("skipExpression", Do("skipWhite", Do("vGetc", s)))
    ELSE s

SkipToNewLineLoop(s, escape) ==
    LET n == Do("vGetc", s)
    IN  IF (n.c = "\n" /\ ~escape) \/ n.c = EOF THEN n
        ELSE DoWith("SkipToNewLineLoop", n, <<n.c = "\\">>)

skipToNewLine(s) == DoWith("SkipToNewLineLoop", s, <<FALSE>>)

(***************************************************************************)
(* The token reader.  readWordToken and the recognizers work on the token  *)
(* in the field token; the result of readWordToken is in the field b, and  *)
(* the field c keeps the caller's c, which C passes by value.              *)
(***************************************************************************)
ReadWordLoop(s, ch) ==
    LET n == Do("vGetc", [s EXCEPT !.token.name = @ \o ch])
    IN  IF isIdentifierCharacter(n.c) THEN DoWith("ReadWordLoop", n, <<n.c>>) ELSE n

readWordToken(s) ==
    IF isFirstIdentifierCharacter(s.c)
    THEN LET n == DoWith("ReadWordLoop", [s EXCEPT !.token = clearToken(s)], <<s.c>>)
         IN  [vUngetc(n, n.c) EXCEPT !.c = s.c, !.b = TRUE]
    ELSE [s EXCEPT !.b = FALSE]

RECURSIVE IsIdentifierFrom(_, _)
IsIdentifierFrom(name, i) ==
    IF i > Len(name) THEN TRUE
    ELSE LET ch == CharAt(name, i)
         IN  IF i = 1
             THEN IF ch = "~" \/ ~isFirstIdentifierCharacter(ch) THEN FALSE
                  ELSE IsIdentifierFrom(name, i + 1)
             ELSE IF ~isIdentifierCharacter(ch) THEN FALSE
                  ELSE IsIdentifierFrom(name, i + 1)

isIdentifier(tok) ==
    IF tok.kind = K_UNDEFINED THEN IsIdentifierFrom(tok.name, 1) ELSE FALSE

getKindForToken(tok) == lookupKeyword(tok.name, lang)

IdentifierOr(tok, k) ==
    IF k = K_UNDEFINED /\ isIdentifier(tok) THEN K_IDENTIFIER ELSE k

\* updateKind (token) on the token in the field token
updateKind(s) ==
    [s EXCEPT !.token.kind =
        IdentifierOr(s.token, lookupKeyword(s.token.name, lang))]

(***************************************************************************)
(* Kinds.                                                                  *)
(***************************************************************************)
isContainer(k) ==
    k \in { K_MODULE, K_TASK, K_FUNCTION, K_BLOCK, K_CLASS, K_COVERGROUP,
            K_INTERFACE, K_PACKAGE, K_PROGRAM, K_PROPERTY, K_TYPEDEF,
            K_ENUM }

\* lines 395-405 with no kind temporary
isTempContextNever(tok) == FALSE

\* lines 395-405
isTempContext(tok) == tok.kind \in { K_TYPEDEF, K_ENUM }

hasSimplePortList(k) ==
    k \in { K_TASK, K_FUNCTION, K_CLASS, K_INTERFACE, K_PROGRAM,
            K_PROPERTY }

\* The index is outside the table for a kind that is not a tag kind of the
\* language; the model reads a name that matches no keyword there.
getNameForKind(k) ==
    IF isInputLanguage(Lang_systemverilog)
    THEN IF k + 1 \in DOMAIN SystemVerilogKinds
         THEN SystemVerilogKinds[k + 1] ELSE "<outside SystemVerilogKinds>"
    ELSE IF k + 1 \in DOMAIN VerilogKinds
         THEN VerilogKinds[k + 1] ELSE "<outside VerilogKinds>"

\* kind is the operand of the Assert of line 884 or the index of
\* getNameForKind (line 846) or kindEnabled (line 902)
KindUsed(s, k) == [s EXCEPT !.kindsUsed = @ \cup {k}]

\* Every kind is enabled but prototype, which the host's options enable.
kindEnabled(k) == IF k = K_PROTOTYPE THEN prototypeKind ELSE TRUE

(***************************************************************************)
(* The scope stack's operations.                                           *)
(***************************************************************************)
\* createContext without line 809's qualification by the parent's name
createContextUnqualified(s, k, name) ==
    [s EXCEPT !.currentContext =
          Append(@, [newToken(s) EXCEPT !.name = name, !.kind = k])]

\* lines 802-825
createContext(s, k, name) ==
    LET scope == [newToken(s) EXCEPT !.name = name, !.kind = k]
        contextName == IF Current(s).kind # K_UNDEFINED
                       THEN (Current(s).name \o ".") \o scope.name
                       ELSE scope.name
    IN  [s EXCEPT !.currentContext =
              Append(@, [scope EXCEPT !.name = contextName])]

dropContext(s) == PopContext(s)

findBlockName(s) ==
    LET s1 == Do("skipWhite", Do("vGetc", s))
    IN  IF s1.c = ":"
        THEN Do("readWordToken", Do("skipWhite", Do("vGetc", s1)))
        ELSE [vUngetc(s1, s1.c) EXCEPT !.b = FALSE]

\* lines 852-856 without the test of classScope
DropSecondContextAlways(s) == PopContext(s)

\* lines 852-856: the class-scope frame under the dropped one goes too
DropSecondContext(s) == IF Current(s).classScope THEN PopContext(s) ELSE s

\* lines 833-859 without the tests of the three rules
dropEndContextOnAnyEnd(s) == DropSecondContext(Do("findBlockName", dropContext(s)))

\* dropEndContext (token) on the token in the field token
dropEndContext(s) ==
    LET cur == Current(s)
    IN  IF \/ cur.kind = K_COVERGROUP /\ s.token.name = "endgroup"
           \/ cur.kind = K_BLOCK /\ cur.nestLevel = 0
              /\ s.token.kind = K_END
        THEN Do("findBlockName", dropContext(s))
        ELSE IF s.token.name = "end" \o getNameForKind(cur.kind)
        THEN DropSecondContext(Do("findBlockName", dropContext( KindUsed(s, cur.kind))))
        ELSE KindUsed(s, cur.kind)

(***************************************************************************)
(* The tag emitter.  createTag (tok, k) returns the token, which it may    *)
(* change, in the field tk.  A record of `tags' is the tagEntryInfo handed *)
(* to makeTagEntry, with, in `call', what createTag was called with:       *)
(* its kind argument, the token's parameter flag, and the classScope and  *)
(* hasParamList flags of currentContext.                                   *)
(***************************************************************************)
TagEntry(s, tok, k, arg, name, qualified) ==
    LET cur == Current(s)
        scoped == cur.kind # K_UNDEFINED
    IN  [ name         |-> name,
          kind         |-> k,
          filePosition |-> tok.filePosition,
          scopeKind    |-> IF scoped THEN cur.kind ELSE K_UNDEFINED,
          scopeName    |-> IF scoped THEN cur.name ELSE "",
          inheritance  |-> tok.inheritance,
          parameter    |-> tok.parameter,
          qualified    |-> qualified,
          call         |-> [ kind         |-> arg.kind,
                             parameter    |-> arg.parameter,
                             classScope   |-> cur.classScope,
                             hasParamList |-> cur.hasParamList ] ]

\* lines 873-883 without the test of hasParamList
ParameterRewriteAnyList(s, tok, k) ==
    IF k = K_LOCALPARAM THEN [kind |-> K_CONSTANT, tok |-> tok]
    ELSE IF k = K_PARAMETER
    THEN [ kind |-> K_CONSTANT,
           tok  |-> IF Current(s).kind # K_CLASS
                       /\ Current(s).kind # K_PACKAGE
                    THEN [tok EXCEPT !.parameter = TRUE] ELSE tok ]
    ELSE [kind |-> k, tok |-> tok]

\* lines 873-883: the kind and the token after the parameter rewrite
ParameterRewrite(s, tok, k) ==
    IF k = K_LOCALPARAM THEN [kind |-> K_CONSTANT, tok |-> tok]
    ELSE IF k = K_PARAMETER
    THEN [ kind |-> K_CONSTANT,
           tok  |-> IF Current(s).kind # K_CLASS
                       /\ Current(s).kind # K_PACKAGE
                       /\ ~Current(s).hasParamList
                    THEN [tok EXCEPT !.parameter = TRUE] ELSE tok ]
    ELSE [kind |-> k, tok |-> tok]

\* lines 886-894
PrototypeRewrite(s, k) == IF Current(s).prototype THEN K_PROTOTYPE ELSE k

\* lines 908-949 without the test of the current context's kind
MakeTagEntriesAtRootToo(s, tok, k, arg) ==
    LET scoped == Current(s).kind # K_UNDEFINED
        s1 == IF scoped
              THEN SetCurrent(s, [Current(s) EXCEPT !.lastKind = k])
              ELSE s
        first == TagEntry(s1, tok, k, arg, tok.name, FALSE)
        second == TagEntry(s1, tok, k, arg,
                           (Current(s1).name \o ".") \o tok.name, TRUE)
    IN  [s1 EXCEPT !.tags =
            IF xtagQualified
            THEN Append(Append(@, first), second)
            ELSE Append(@, first)]

\* lines 908-949: one record, and a second one under the qualified extra
MakeTagEntries(s, tok, k, arg) ==
    LET scoped == Current(s).kind # K_UNDEFINED
        s1 == IF scoped
              THEN SetCurrent(s, [Current(s) EXCEPT !.lastKind = k])
              ELSE s
        first == TagEntry(s1, tok, k, arg, tok.name, FALSE)
        second == TagEntry(s1, tok, k, arg,
                           (Current(s1).name \o ".") \o tok.name, TRUE)
    IN  [s1 EXCEPT !.tags =
            IF xtagQualified /\ scoped
            THEN Append(Append(@, first), second)
            ELSE Append(@, first)]


\* lines 957-967: createTag on every token of tagContents, head first
IncludeContents(s, i) ==
    IF i > Len(s.tagContents) THEN s
    ELSE LET r == DoWith("createTag", s, <<s.tagContents[i], s.tagContents[i].kind>>)
         IN  DoWith("IncludeContents", [r EXCEPT !.tagContents[i] = r.tk], <<i + 1>>)

\* lines 951-974
PushContainer(s, tok, k) ==
    LET s1 == createContext(s, k, tok.name)
        s2 == IF s1.tagContents # << >> THEN DoWith("IncludeContents", s1, <<1>>) ELSE s1
    IN  IF isTempContext(Current(s2)) THEN dropContext(s2) ELSE s2

createTag(s, tok, k) ==
    IF k = K_UNDEFINED \/ k = K_IDENTIFIER THEN [s EXCEPT !.tk = tok]
    ELSE LET rw == ParameterRewrite(s, tok, k)
             container == isContainer(rw.kind)
             k2 == PrototypeRewrite(s, rw.kind)
             s0 == KindUsed(s, rw.kind)
         IN  IF Len(rw.tok.name) = 0 THEN [s0 EXCEPT !.tk = rw.tok]
             ELSE IF ~kindEnabled(k2)
             THEN [KindUsed(s0, k2) EXCEPT !.tk = rw.tok]
             ELSE LET arg == [kind |-> k, parameter |-> tok.parameter]
                      s1 == DoWith("MakeTagEntries", KindUsed(s0, k2), <<rw.tok, k2, arg>>)
                      s2 == IF container
                            THEN DoWith("PushContainer", s1, <<rw.tok, k2>>)
                            ELSE s1
                  IN  [s2 EXCEPT !.tk = [rw.tok EXCEPT !.inheritance = ""]]

\* createTag (token, k) on the token in the field token
createTagOfToken(s, k) ==
    LET r == DoWith("createTag", s, <<s.token, k>>) IN [r EXCEPT !.token = r.tk]

(***************************************************************************)
(* begin, end                                                              *)
(***************************************************************************)
\* lines 995-1004 without the increment of nestLevel
processBeginWithoutNesting(s) ==
    LET s2 == Do("findBlockName", s)
    IN  IF s2.b THEN DoWith("createTagOfToken", s2, <<K_BLOCK>>) ELSE s2

\* lines 995-1004
processBegin(s) ==
    LET s1 == SetCurrent(s, [Current(s) EXCEPT !.nestLevel = @ + 1])
        s2 == Do("findBlockName", s1)
    IN  IF s2.b THEN DoWith("createTagOfToken", s2, <<K_BLOCK>>) ELSE s2

processEnd(s) ==
    LET s1 == SetCurrent(s, [Current(s) EXCEPT !.nestLevel = @ - 1])
        s2 == Do("findBlockName", s1)
    IN  IF s2.b /\ Current(s2).kind = K_BLOCK /\ Current(s2).nestLevel <= 1
        THEN dropContext(s2)
        ELSE s2

(***************************************************************************)
(* `define and macros                                                      *)
(***************************************************************************)
processDefine(s) ==
    LET s1 == Do("readWordToken", Do("skipWhite", Do("vGetc", s)))
    IN  Do("skipToNewLine", DoWith("createTagOfToken", s1, <<K_CONSTANT>>))

\* skipMacro (c) has a token of its own
skipMacro(s) ==
    IF s.c = "~"
    THEN LET w == Do("updateKind", Do("readWordToken", [s EXCEPT !.token = newToken(s)]))
             r == IF w.token.kind = K_DIRECTIVE
                  THEN Do("skipWhite", Do("vGetc", Do("skipToNewLine", w)))
                  ELSE IF w.token.kind = K_DEFINE
                  THEN Do("skipWhite", Do("vGetc", Do("processDefine", w)))
                  ELSE LET n == Do("skipWhite", Do("vGetc", w))
                       IN  IF n.c = "("
                           THEN Do("skipWhite", DoWith("skipPastMatch", n, <<"(", ")">>))
                           ELSE n
         IN  [r EXCEPT !.token = s.token]
    ELSE s

(***************************************************************************)
(* Port lists, functions and tasks                                         *)
(***************************************************************************)
PortDefaultLoop(s) ==
    IF s.c # "," /\ s.c # ")" /\ s.c # EOF
    THEN Do("PortDefaultLoop", Do("skipWhite", Do("vGetc", s)))
    ELSE s

PortListLoop(s) ==
    IF s.c = ";" \/ s.c = EOF THEN s
    ELSE LET d == Do("skipDimension", s)
         IN  IF d.c = "(" THEN Do("PortListLoop", DoWith("skipPastMatch", d, <<"(", ")">>))
             ELSE IF d.c = "{" THEN Do("PortListLoop", DoWith("skipPastMatch", d, <<"{", "}">>))
             ELSE IF d.c = "~" THEN Do("PortListLoop", Do("skipMacro", d))
             ELSE IF d.c = "=" THEN Do("PortListLoop", Do("PortDefaultLoop", d))
             ELSE LET w == Do("readWordToken", d)
                  IN  IF w.b
                      THEN LET u == Do("updateKind", w)
                               n == Do("skipWhite", Do("vGetc", u))
                           IN  IF u.token.kind = K_IDENTIFIER
                                  /\ (~isFirstIdentifierCharacter(n.c)
                                      \/ n.c = "~")
                               THEN Do("PortListLoop", DoWith("createTagOfToken", n, <<K_PORT>>))
                               ELSE Do("PortListLoop", n)
                      ELSE Do("PortListLoop", Do("skipWhite", Do("vGetc", d)))

\* processPortList (token, c) with c in the field c
processPortList(s) ==
    LET s0 == Do("skipWhite", s)
        r == IF s0.c = "(" THEN Do("PortListLoop", Do("skipWhite", Do("vGetc", s0))) ELSE s0
    IN  IF r.c # EOF THEN vUngetc(r, r.c) ELSE r

skipParameterAssignment(s) ==
    IF s.c = "#"
    THEN LET n == Do("skipWhite", Do("vGetc", s))
         IN  IF n.c = "(" THEN Do("skipWhite", DoWith("skipPastMatch", n, <<"(", ")">>)) ELSE n
    ELSE s

\* lines 1110-1124
ClassTypePrefix(s) ==
    IF isInputLanguage(Lang_systemverilog) /\ s.c = ":"
    THEN LET g == Do("vGetc", s)
         IN  IF g.c = ":"
             THEN LET p == createContext(g, K_CLASS, g.token.name)
                  IN  SetCurrent(p, [Current(p) EXCEPT !.classScope = TRUE])
             ELSE vUngetc(g, g.c)
    ELSE s

FunctionNameLoop(s) ==
    LET r == Do("ClassTypePrefix", Do("skipParameterAssignment", Do("skipWhite", Do("vGetc", Do("readWordToken", s)))))
    IN  IF r.c # "(" /\ r.c # ";" /\ r.c # EOF THEN Do("FunctionNameLoop", r)
        ELSE r

processFunction(s) ==
    LET k == s.token.kind
        r == Do("FunctionNameLoop", Do("skipWhite", Do("vGetc", s)))
    IN  IF Len(r.token.name) > 0
        THEN Do("processPortList", DoWith("createTagOfToken", r, <<k>>))
        ELSE r

(***************************************************************************)
(* Delays and name lists                                                   *)
(***************************************************************************)
TimeLiteralLoop(s) ==
    IF isIdentifierCharacter(s.c) \/ s.c = "." THEN Do("TimeLiteralLoop", Do("vGetc", s))
    ELSE s

\* skipDelay (token, c) with c in the field c
skipDelay(s) ==
    IF s.c = "#"
    THEN LET n == Do("skipWhite", Do("vGetc", s))
         IN  Do("skipWhite", IF n.c = "(" THEN DoWith("skipPastMatch", n, <<"(", ")">>) ELSE IF n.c = "#" THEN Do("skipToSemiColon", n) ELSE Do("TimeLiteralLoop", n))
    ELSE s

SkipMacros(s) == IF s.c = "~" THEN Do("SkipMacros", Do("skipMacro", s)) ELSE s

\* lines 1535-1556 without line 1550, which gives the kind register to the
\* name that follows a user-defined type
NameListWordWithoutUserType(s, k, actualKind) ==
    LET w == Do("readWordToken", s)
        u == IF w.b THEN Do("updateKind", w) ELSE w
        tk == u.token.kind
    IN  [u EXCEPT !.q =
          IF ~w.b THEN [k |-> k, actualKind |-> actualKind, repeat |-> FALSE]
          ELSE IF k = K_IDENTIFIER
          THEN IF tk = K_NET
               THEN [k |-> k, actualKind |-> K_NET, repeat |-> TRUE]
               ELSE IF tk = K_REGISTER
               THEN [k |-> k, actualKind |-> K_REGISTER, repeat |-> TRUE]
               ELSE [k |-> k, actualKind |-> actualKind, repeat |-> FALSE]
          ELSE [k |-> k, actualKind |-> actualKind,
                repeat |-> \/ tk # K_IDENTIFIER
                           \/ (k = K_PORT /\ tk = K_IDENTIFIER)]]

\* lines 1535-1556: the word of one declarator; what it makes of kind,
\* actualKind and repeat is in the fields k, actualKind and repeat of q
NameListWord(s, k, actualKind) ==
    LET w == Do("readWordToken", s)
        u == IF w.b THEN Do("updateKind", w) ELSE w
        tk == u.token.kind
    IN  [u EXCEPT !.q =
          IF ~w.b THEN [k |-> k, actualKind |-> actualKind, repeat |-> FALSE]
          ELSE IF k = K_IDENTIFIER
          THEN IF tk = K_NET
               THEN [k |-> k, actualKind |-> K_NET, repeat |-> TRUE]
               ELSE IF tk = K_REGISTER
               THEN [k |-> k, actualKind |-> K_REGISTER, repeat |-> TRUE]
               ELSE [k |-> K_REGISTER, actualKind |-> actualKind,
                     repeat |-> FALSE]
          ELSE [k |-> k, actualKind |-> actualKind,
                repeat |-> \/ tk # K_IDENTIFIER
                           \/ (k = K_PORT /\ tk = K_IDENTIFIER)]]

NameListLoop(s, k, actualKind) ==
    LET w == DoWith("NameListWord", Do("SkipMacros", s), <<k, actualKind>>)
        k1 == w.q.k
        a1 == w.q.actualKind
        tagKind == IF k1 = K_UNDEFINED THEN a1 ELSE k1
        n == Do("skipDimension", Do("skipWhite", Do("skipWhite", Do("vGetc", w))))
        r == IF n.c = "," \/ n.c = ";" \/ n.c = ")"
             THEN [DoWith("createTagOfToken", n, <<tagKind>>) EXCEPT !.b = FALSE]
             ELSE IF n.c = "="
             THEN LET t == IF ~w.q.repeat THEN DoWith("createTagOfToken", n, <<tagKind>>)
                           ELSE n
                  IN  [Do("skipExpression", Do("skipWhite", Do("vGetc", t)))
                          EXCEPT !.b = w.q.repeat]
             ELSE [n EXCEPT !.b = w.q.repeat]
        e == IF r.c = "," THEN [Do("skipWhite", Do("vGetc", r)) EXCEPT !.b = TRUE] ELSE r
    IN  IF e.b THEN DoWith("NameListLoop", e, <<k1, a1>>) ELSE e

\* tagNameList (token, c) on the token in the field token, c in the field c
tagNameList(s) ==
    LET s1 == IF s.c = "(" THEN DoWith("skipPastMatch", s, <<"(", ")">>) ELSE s
        s2 == Do("skipDelay", Do("skipDimension", Do("skipWhite", s1)))
        r == DoWith("NameListLoop", s2, <<s.token.kind, K_UNDEFINED>>)
        e == IF r.c = "(" THEN DoWith("skipPastMatch", r, <<"(", ")">>) ELSE r
    IN  vUngetc(e, e.c)

(***************************************************************************)
(* enum, struct, typedef                                                   *)
(***************************************************************************)
\* lines 1150-1156; the type queue is in the field q, head first
EnumTypeLoop(s) ==
    LET u == Do("updateKind", s)
        p == [u EXCEPT !.q = pushToken(@, dupToken(u.token))]
        n == Do("readWordToken", Do("skipWhite", Do("vGetc", p)))
    IN  IF n.b THEN Do("EnumTypeLoop", n) ELSE n

EnumValueLoop(s) ==
    IF s.c # "}" /\ s.c # "," /\ s.c # EOF
    THEN LET n == Do("skipWhite", Do("vGetc", s))
         IN  Do("EnumValueLoop", IF n.c = "{" THEN Do("skipWhite", DoWith("skipPastMatch", n, <<"{", "}">>)) ELSE n)
    ELSE s

\* lines 1181-1216
EnumElementLoop(s) ==
    LET w == Do("readWordToken", s)
    IN  IF ~w.b THEN w
        ELSE LET t == [w EXCEPT !.token.kind = K_CONSTANT]
                 p == [t EXCEPT !.tagContents =
                           pushToken(@, dupToken(t.token))]
                 d == Do("skipDimension", Do("skipWhite", Do("vGetc", p)))
                 v == IF d.c = "=" THEN Do("EnumValueLoop", d) ELSE d
                 e == IF v.c = "," THEN Do("skipWhite", Do("vGetc", v)) ELSE v
             IN  IF e.c = "}" THEN Do("skipWhite", Do("vGetc", e))
                 ELSE Do("EnumElementLoop", e)

processEnum(s) ==
    LET enumToken == dupToken(s.token)
        w == Do("readWordToken", Do("skipWhite", Do("vGetc", s)))
        t == IF w.b THEN Do("EnumTypeLoop", [w EXCEPT !.q = << >>]) ELSE w
        forward == /\ w.b
                   /\ t.token.kind = K_IDENTIFIER
                   /\ (Len(t.q) < 2 \/ t.q[2].kind # K_UNDEFINED)
    IN  IF forward THEN DoWith("createTagOfToken", t, <<K_PROTOTYPE>>)
        ELSE LET d == Do("skipDimension", t)
                 e == IF d.c = "{" THEN Do("EnumElementLoop", Do("skipWhite", Do("vGetc", d)))
                      ELSE d
                 r == Do("tagNameList", [e EXCEPT !.token = enumToken])
             IN  [r EXCEPT !.token = e.token]

StructWordsLoop(s) ==
    LET w == Do("readWordToken", s)
    IN  IF w.b THEN Do("StructWordsLoop", Do("skipWhite", Do("vGetc", w))) ELSE w

processStruct(s) ==
    LET k == s.token.kind
        w == Do("StructWordsLoop", Do("skipWhite", Do("vGetc", s)))
    IN  IF w.c = "{"
        THEN LET d == Do("skipDimension", Do("skipWhite", DoWith("skipPastMatch", w, <<"{", "}">>)))
             IN  Do("tagNameList", [d EXCEPT !.token.kind = k])
        ELSE DoWith("createTagOfToken", w, <<K_PROTOTYPE>>)

\* the hint is not recorded
SetPrototypeNever(s) == s

\* lines 1278, 1322 and 1630: currentContext->prototype = true
SetPrototype(s) == SetCurrent(s, [Current(s) EXCEPT !.prototype = TRUE])

\* lines 1297-1327
TypedefName(s) ==
    LET a == Do("readWordToken", s)
        b == IF a.b THEN Do("skipWhite", Do("vGetc", a)) ELSE a
        w == Do("StructWordsLoop", Do("skipDimension", b))
        n == Do("readWordToken", Do("skipParameterAssignment", w))
        f == IF n.b THEN n
             ELSE LET g == vUngetc(n, n.c)
                  IN  IF g.token.kind = K_IDENTIFIER THEN SetPrototype(g)
                      ELSE g
    IN  DoWith("createTagOfToken", f, <<K_TYPEDEF>>)

processTypedef(s) ==
    LET w == Do("readWordToken", Do("skipWhite", Do("vGetc", s)))
        u == Do("updateKind", w)
    IN  IF ~w.b THEN Do("TypedefName", w)
        ELSE IF u.token.kind = K_ENUM
        THEN Do("processEnum", [u EXCEPT !.token.kind = K_TYPEDEF])
        ELSE IF u.token.kind = K_STRUCT
        THEN Do("processStruct", [u EXCEPT !.token.kind = K_TYPEDEF])
        ELSE IF u.token.kind = K_INTERFACE
        THEN LET i == Do("updateKind", Do("readWordToken", Do("skipWhite", Do("vGetc", u))))
             IN  Do("TypedefName", Do("skipWhite", Do("vGetc", SetPrototype(i))))
        ELSE IF u.token.kind = K_CLASS
        THEN Do("TypedefName", Do("skipWhite", Do("vGetc", SetPrototype(u))))
        ELSE Do("TypedefName", Do("skipWhite", Do("vGetc", u)))

(***************************************************************************)
(* Parameter lists, classes, assertions, design elements                   *)
(***************************************************************************)
\* lines 1340-1374; the captured parameters are in the field q, in order
ParameterListLoop(s, parameter) ==
    LET s1 == Do("skipWhite", Do("vGetc", s))
        w == Do("readWordToken", s1)
        u == Do("updateKind", w)
        n == Do("skipWhite", Do("vGetc", u))
        param == [dupToken(n.token) EXCEPT !.kind = K_CONSTANT,
                                           !.parameter = parameter]
        r == IF w.b
             THEN IF u.token.kind = K_IDENTIFIER
                  THEN IF n.c = "," \/ n.c = ")" \/ n.c = "="
                       THEN Do("skipExpression", [n EXCEPT !.q = appendToken(@, param)])
                       ELSE n
                  ELSE u
             ELSE IF s1.c = "["
             THEN LET d == Do("skipDimension", w) IN vUngetc(d, d.c)
             ELSE w
        polarity == IF w.b /\ u.token.kind = K_PARAMETER THEN TRUE
                    ELSE IF w.b /\ u.token.kind = K_LOCALPARAM THEN FALSE
                    ELSE parameter
    IN  IF r.c # ")" /\ r.c # EOF THEN DoWith("ParameterListLoop", r, <<polarity>>)
        ELSE r

\* processParameterList (token, c) with c in the field c; the list it
\* returns is in the field q
processParameterList(s) ==
    LET s0 == [s EXCEPT !.q = << >>]
        r == IF s0.c = "#"
             THEN LET n == Do("skipWhite", Do("vGetc", s0))
                  IN  IF n.c = "("
                      THEN Do("skipWhite", Do("vGetc", DoWith("ParameterListLoop", n, <<TRUE>>)))
                      ELSE n
             ELSE s0
    IN  vUngetc(r, r.c)

\* lines 1420-1424 and 1467-1471: createTag on each token of the list
TagParameters(s, parameters) ==
    IF parameters = << >> THEN s
    ELSE DoWith("TagParameters", DoWith("createTag", s, <<Head(parameters), K_CONSTANT>>), <<popToken(parameters)>>)

\* lines 1387-1425 without the copy of the base class's name
processClassWithoutInheritance(s) ==
    LET w == Do("readWordToken", Do("skipWhite", Do("vGetc", s)))
        classToken == dupToken(w.token)
        pl == Do("processParameterList", Do("skipWhite", Do("vGetc", w)))
        parameters == pl.q
        e == Do("readWordToken", Do("skipWhite", Do("vGetc", pl)))
        extends == e.b /\ e.token.name = "extends"
        x == IF extends THEN Do("readWordToken", Do("skipWhite", Do("vGetc", e))) ELSE e
    IN  IF ~w.b THEN w
        ELSE DoWith("TagParameters", DoWith("createTag", x, <<classToken, K_CLASS>>), <<parameters>>)

\* lines 1382-1425
processClass(s) ==
    LET w == Do("readWordToken", Do("skipWhite", Do("vGetc", s)))
        classToken == dupToken(w.token)
        pl == Do("processParameterList", Do("skipWhite", Do("vGetc", w)))
        parameters == pl.q
        e == Do("readWordToken", Do("skipWhite", Do("vGetc", pl)))
        extends == e.b /\ e.token.name = "extends"
        x == IF extends THEN Do("readWordToken", Do("skipWhite", Do("vGetc", e))) ELSE e
        inherited == IF extends
                     THEN [classToken EXCEPT !.inheritance = x.token.name]
                     ELSE classToken
    IN  IF ~w.b THEN w
        ELSE DoWith("TagParameters", DoWith("createTag", x, <<inherited, K_CLASS>>), <<parameters>>)

processAssertion(s) ==
    IF Len(Current(s).blockName) > 0
    THEN LET t == DoWith("createTagOfToken", [s EXCEPT !.token.name = Current(s).blockName], <<K_ASSERTION>>)
             r == Do("skipToSemiColon", t)
         IN  vUngetc(r, r.c)
    ELSE s

\* lines 1451-1454: up to the head of the loop; b tells whether it is entered
DesignElementName(s) == Do("readWordToken", Do("skipWhite", Do("vGetc", s)))

\* lines 1458-1459: the body of the loop
DesignElementSkipWord(s) == Do("readWordToken", Do("skipWhite", Do("vGetc", s)))

\* lines 1477-1488
DesignElementPorts(s, k) ==
    IF s.c = "("
    THEN IF k = K_MODPORT THEN DoWith("skipPastMatch", s, <<"(", ")">>)
         ELSE IF hasSimplePortList(k) THEN Do("processPortList", s)
         ELSE s
    ELSE vUngetc(s, s.c)

\* lines 1461-1489: from the end of the loop
DesignElementTag(s, k) ==
    LET t == Do("skipWhite", Do("vGetc", DoWith("createTagOfToken", s, <<k>>)))
    IN  IF t.c = "#"
        THEN LET pl == Do("processParameterList", t)
                 p == DoWith("TagParameters", pl, <<pl.q>>)
                 h == SetCurrent(p, [Current(p) EXCEPT !.hasParamList = TRUE])
             IN  DoWith("DesignElementPorts", Do("skipWhite", Do("vGetc", h)), <<k>>)
        ELSE DoWith("DesignElementPorts", t, <<k>>)

(***************************************************************************)
(* findTag                                                                 *)
(***************************************************************************)
\* lines 1589-1593
EndOfContext(s) ==
    IF Current(s).kind # K_UNDEFINED
       /\ (s.token.kind = K_END \/ s.token.kind = K_END_DE)
    THEN Do("dropEndContext", s)
    ELSE s

NameListKinds ==
    { K_CONSTANT, K_EVENT, K_LOCALPARAM, K_NET, K_PARAMETER, K_PORT,
      K_REGISTER }

DesignElementKinds ==
    { K_COVERGROUP, K_INTERFACE, K_MODPORT, K_MODULE, K_PACKAGE, K_PROGRAM,
      K_PROPERTY }

DispatchedKinds ==
    NameListKinds \cup DesignElementKinds \cup
    { K_IDENTIFIER, K_CLASS, K_TYPEDEF, K_ENUM, K_STRUCT, K_PROTOTYPE,
      K_BEGIN, K_END, K_FUNCTION, K_TASK, K_ASSERTION, K_DEFINE,
      K_DIRECTIVE, K_END_DE, K_IGNORE }

\* lines 1606-1615
IdentifierStatement(s) ==
    LET n == Do("skipWhite", Do("vGetc", s))
    IN  IF n.c = ":" THEN vUngetc(n, n.c)
        ELSE IF n.c = "=" THEN Do("skipExpression", Do("skipWhite", Do("vGetc", n)))
        ELSE Do("tagNameList", n)

\* findVerilogTags, line 1680
NextChar(s) == Do("skipWhite", Do("vGetc", s))

\* findVerilogTags, lines 1708-1714, and findTag up to its switch: the field
\* q tells whether a word was read ("none" if not), and whether its kind
\* was known and findTag called ("findTag") or not ("unknown"); the field
\* c is findVerilogTags' c, the character read at line 1680
NextToken(s) ==
    IF isFirstIdentifierCharacter(Do("NextChar", s).c)
    THEN IF Do("updateKind", Do("readWordToken", Do("NextChar", s))).token.kind # K_UNDEFINED
         THEN [Do("EndOfContext", Do("updateKind", Do("readWordToken", Do("NextChar", s))))
                 EXCEPT !.q = "findTag", !.c = Do("NextChar", s).c]
         ELSE [Do("updateKind", Do("readWordToken", Do("NextChar", s))) EXCEPT !.q = "unknown"]
    ELSE [Do("NextChar", s) EXCEPT !.q = "none"]


(***************************************************************************)
(* A call of a function of the scanner: Call (f, s, a) is the state the     *)
(* function named f leaves when called in state s with the arguments a.    *)
(***************************************************************************)
Call(f, s, a) ==
    CASE f = "SkipOverCCommentLoop" -> SkipOverCCommentLoop(s)
      [] f = "verilogSkipOverCComment" -> verilogSkipOverCComment(s)
      [] f = "SkipLineComment" -> SkipLineComment(s)
      [] f = "SkipString" -> SkipString(s)
      [] f = "vGetc" -> vGetc(s)
      [] f = "skipWhite" -> skipWhite(s)
      [] f = "PastMatchLoop" -> PastMatchLoop(s, a[1], a[2], a[3])
      [] f = "skipPastMatch" -> skipPastMatch(s, a[1], a[2])
      [] f = "skipDimension" -> skipDimension(s)
      [] f = "skipToSemiColon" -> skipToSemiColon(s)
      [] f = "skipExpression" -> skipExpression(s)
      [] f = "SkipToNewLineLoop" -> SkipToNewLineLoop(s, a[1])
      [] f = "skipToNewLine" -> skipToNewLine(s)
      [] f = "ReadWordLoop" -> ReadWordLoop(s, a[1])
      [] f = "readWordToken" -> readWordToken(s)
      [] f = "updateKind" -> updateKind(s)
      [] f = "findBlockName" -> findBlockName(s)
      [] f = "dropEndContext" -> dropEndContext(s)
      [] f = "MakeTagEntries" -> MakeTagEntries(s, a[1], a[2], a[3])
      [] f = "IncludeContents" -> IncludeContents(s, a[1])
      [] f = "PushContainer" -> PushContainer(s, a[1], a[2])
      [] f = "createTag" -> createTag(s, a[1], a[2])
      [] f = "createTagOfToken" -> createTagOfToken(s, a[1])
      [] f = "processBegin" -> processBegin(s)
      [] f = "processEnd" -> processEnd(s)
      [] f = "processDefine" -> processDefine(s)
      [] f = "skipMacro" -> skipMacro(s)
      [] f = "PortDefaultLoop" -> PortDefaultLoop(s)
      [] f = "PortListLoop" -> PortListLoop(s)
      [] f = "processPortList" -> processPortList(s)
      [] f = "skipParameterAssignment" -> skipParameterAssignment(s)
      [] f = "ClassTypePrefix" -> ClassTypePrefix(s)
      [] f = "FunctionNameLoop" -> FunctionNameLoop(s)
      [] f = "processFunction" -> processFunction(s)
      [] f = "TimeLiteralLoop" -> TimeLiteralLoop(s)
      [] f = "skipDelay" -> skipDelay(s)
      [] f = "SkipMacros" -> SkipMacros(s)
      [] f = "NameListWord" -> NameListWord(s, a[1], a[2])
      [] f = "NameListLoop" -> NameListLoop(s, a[1], a[2])
      [] f = "tagNameList" -> tagNameList(s)
      [] f = "EnumTypeLoop" -> EnumTypeLoop(s)
      [] f = "EnumValueLoop" -> EnumValueLoop(s)
      [] f = "EnumElementLoop" -> EnumElementLoop(s)
      [] f = "processEnum" -> processEnum(s)
      [] f = "StructWordsLoop" -> StructWordsLoop(s)
      [] f = "processStruct" -> processStruct(s)
      [] f = "TypedefName" -> TypedefName(s)
      [] f = "processTypedef" -> processTypedef(s)
      [] f = "ParameterListLoop" -> ParameterListLoop(s, a[1])
      [] f = "processParameterList" -> processParameterList(s)
      [] f = "TagParameters" -> TagParameters(s, a[1])
      [] f = "processClass" -> processClass(s)
      [] f = "processAssertion" -> processAssertion(s)
      [] f = "DesignElementName" -> DesignElementName(s)
      [] f = "DesignElementSkipWord" -> DesignElementSkipWord(s)
      [] f = "DesignElementPorts" -> DesignElementPorts(s, a[1])
      [] f = "DesignElementTag" -> DesignElementTag(s, a[1])
      [] f = "EndOfContext" -> EndOfContext(s)
      [] f = "IdentifierStatement" -> IdentifierStatement(s)
      [] f = "NextChar" -> NextChar(s)
      [] f = "NextToken" -> NextToken(s)

(***************************************************************************)
(* The input files: every concatenation of at most MaxFragments of the     *)
(* fragments, and the files of the corpus, each under each configuration   *)
(* of the host.  The prototype kind is disabled unless the host's options  *)
(* enable it.                                                              *)
(***************************************************************************)
MaxFragments == 2

MaxRuns == 2

Fragments ==
    { "module m;", "endmodule ", "module n #(N=1);", "parameter P=1;",
      "class C #(parameter T=1);", "endclass ",
      "function a::f;", "endfunction ", "extern ",
      "begin :b ", "end ", "end :b " }

Corpus ==
    { "module m #(parameter int N=8)(input a, output b); endmodule",
      "class C extends Base; task t(); endtask endclass",
      "typedef enum { A, B=2, C } e_t;",
      "~define WIDTH 32",
      "interface I; modport mp(input x); endinterface",
      "function automatic int foo::bar(input int x); endfunction",
      "sequence s; endsequence ",
      "module automatic ",
      "module automatic m; endmodule",
      "function a:;",
      "module m; enum {A",
      "begin end ",
      "package p; parameter P=1; localparam L=1; endpackage",
      "module m; localparam L=1; wire w; endmodule",
      "struct {int x;} s;",
      "x=1; ~x #1 y; /* c */ z: assert (x); // c",
      "~ifdef X\n~endif",
      "class C; extern function void f(input x); endclass",
      "typedef T;", "typedef class C;", "class C;", "class;",
      "module m #(parameter my_t NN=8)(input a); endmodule",
      "function a::b::f; endfunction ",
      "~define WIDTH 32\n~FOO(wire w)\n~endif",
      "class C #(parameter T=1, N=2) extends Base; int x; task t(); endtask endclass",
      "wire w = 1, 2;",
      "a1: assert (x); assert (y);",
      "module m; begin end endmodule",
      "class C #(type T=int, my_t N=1, M); endclass",
      "enum {A} x, y;",
      "x = 1; wire w;",
      "foo; wire w;",
      "foo u1(a, b); foo #(1) u2[3:0](a); x = 1; y <= 2; wire w;",
      "wire w; wire a, b; wire c = 1; my_t d; my_t e, f; my_t g = 2;",
      "#10 wire w;" }

(***************************************************************************)
(* The host's edits: a file of EditedTexts parsed once more, in a process  *)
(* of its own, with a block comment or a string literal inserted at a      *)
(* position next to white space.                                           *)
(***************************************************************************)
EditedTexts ==
    { "module m; wire w; endmodule",
      "~define A \\\nwire w;\nmodule m; endmodule",
      "assign x = a / b; wire w;",
      "module m #(parameter int N=8)(input a, output b); endmodule",
      "typedef enum { A, B=2, C } e_t;",
      "function automatic int foo::bar(input int x); endfunction",
      "/* a b; */ wire w; // c d\nreg r;",
      "begin : b end : b wire w;",
      "~define WIDTH 32\n~ifdef X\nwire w;\n~endif\n#1 y;",
      "x = \"a b\"; wire w;",
      "class C extends Base; task t(); endtask endclass" }

Literal(e) == IF e = "comment" THEN "/* c */" ELSE "\"s\""

Insert(text, i, lit) ==
    (SubSeq(text, 1, i) \o lit) \o SubSeq(text, i + 1, Len(text))

\* the positions of text with white space on one side at least
WhiteSpacePositions(text) ==
    { i \in 0..Len(text) :
        \/ i >= 1 /\ isspace(CharAt(text, i))
        \/ i < Len(text) /\ isspace(CharAt(text, i + 1)) }

RECURSIVE Concat(_)
Concat(fs) == IF fs = << >> THEN "" ELSE Head(fs) \o Concat(Tail(fs))

Texts ==
    Corpus \cup EditedTexts \cup
    { Concat(fs) : fs \in UNION { [1..n -> Fragments] : n \in 0..MaxFragments } }

Configurations ==
    { [lang |-> Lang_systemverilog, qualified |-> FALSE, prototype |-> FALSE],
      [lang |-> Lang_systemverilog, qualified |-> TRUE, prototype |-> TRUE],
      [lang |-> Lang_verilog, qualified |-> FALSE, prototype |-> FALSE] }

Files ==
    { [text |-> t, lang |-> f.lang, qualified |-> f.qualified,
       prototype |-> f.prototype] : t \in Texts, f \in Configurations }

(***************************************************************************)
(* findVerilogTags                                                         *)
(***************************************************************************)
\* the scanner's state as the record the operators above work on; b, tk and
\* q hold results of calls
State ==
    [ pos             |-> pos,
      Ungetc          |-> Ungetc,
      ungetcEmptyHeld |-> ungetcEmptyHeld,
      currentContext  |-> currentContext,
      tagContents     |-> tagContents,
      token           |-> token,
      c               |-> c,
      tags            |-> tags,
      kindsUsed       |-> kindsUsed,
      b               |-> FALSE,
      tk              |-> token,
      q               |-> << >> ]

Options == <<input, lang, xtagQualified, prototypeKind>>

Invocation == <<run, firstTags, edit, editAt>>

\* the state after statements that leave r, at a place of the loop
Goto(r, place) ==
    /\ pos' = r.pos
    /\ Ungetc' = r.Ungetc
    /\ ungetcEmptyHeld' = r.ungetcEmptyHeld
    /\ currentContext' = r.currentContext
    /\ tagContents' = r.tagContents
    /\ token' = r.token
    /\ tags' = r.tags
    /\ kindsUsed' = r.kindsUsed
    /\ pc' = place
    /\ UNCHANGED <<Options, Invocation>>

\* the end of an iteration of the loop of line 1678 that leaves r, with ch
\* the value of findVerilogTags' c
Iterate(r, ch) ==
    /\ Goto(r, IF ch = EOF THEN "eof" ELSE "scan")
    /\ c' = ch
    /\ kind' = K_UNDEFINED

\* the state in which the loop of line 1678 has read a token and is to act
\* on it
Read(r, place) ==
    /\ Goto(r, place)
    /\ c' = r.c
    /\ UNCHANGED kind

\* the token the loop of line 1678 reads, if the scanner is at its top
AtTop == IF pc = "scan" THEN {Do("NextToken", State)} ELSE {}

\* lines 1680-1708: a character that starts no word, or EOF
ScanCharacter ==
    \E n \in AtTop :
        /\ n.q = "none"
        /\ Read(n, "character")

\* lines 1708-1712: a word that is no keyword and no identifier
ScanUnknownWord ==
    \E w \in AtTop :
        /\ w.q = "unknown"
        /\ Iterate(w, w.c)

\* lines 1708-1713 and 1589-1593: a word of a known kind, and findTag up
\* to its switch
ScanWord ==
    \E w \in AtTop :
        /\ w.q = "findTag"
        /\ Read(w, "findTag")

\* line 1686
ScanColon ==
    /\ pc = "character"
    /\ c = ":"
    /\ Iterate(SetCurrent(State, [Current(State) EXCEPT
                                     !.blockName = token.name]), c)

\* lines 1689-1704 without the drop of a prototype's context
EndOfStatementKeepsContext(s) ==
    [SetCurrent(s, [Current(s) EXCEPT !.prototype = FALSE])
       EXCEPT !.tagContents = << >>]

\* lines 1689-1704
EndOfStatement(s) ==
    [SetCurrent(IF HasParent(s) /\ Parent(s).prototype THEN dropContext(s)
                ELSE s,
                [Current(IF HasParent(s) /\ Parent(s).prototype
                         THEN dropContext(s) ELSE s)
                   EXCEPT !.prototype = FALSE])
       EXCEPT !.tagContents = << >>]

ScanSemiColon ==
    /\ pc = "character"
    /\ c = ";"
    /\ Iterate(EndOfStatement(State), c)

\* line 1705
ScanDelay ==
    /\ pc = "character"
    /\ c = "#"
    /\ \E r \in {Do("skipDelay", State)} : Iterate(r, r.c)

\* line 1708: any other character, or EOF
ScanOther ==
    /\ pc = "character"
    /\ c \notin {":", ";", "#"}
    /\ Iterate(State, c)

\* findTag is at its switch, with a token of a kind of ks
FindTagAt(ks) == pc = "findTag" /\ token.kind \in ks

FindTagNameList ==
    /\ FindTagAt(NameListKinds)
    /\ Iterate(Do("tagNameList", Do("skipWhite", Do("vGetc", State))), c)

FindTagIdentifier ==
    /\ FindTagAt({K_IDENTIFIER})
    /\ Iterate(Do("IdentifierStatement", State), c)

FindTagClass ==
    /\ FindTagAt({K_CLASS})
    /\ Iterate(Do("processClass", State), c)

FindTagTypedef ==
    /\ FindTagAt({K_TYPEDEF})
    /\ Iterate(Do("processTypedef", State), c)

FindTagEnum ==
    /\ FindTagAt({K_ENUM})
    /\ Iterate(Do("processEnum", State), c)

FindTagStruct ==
    /\ FindTagAt({K_STRUCT})
    /\ Iterate(Do("processStruct", State), c)

FindTagPrototype ==
    /\ FindTagAt({K_PROTOTYPE})
    /\ Iterate(SetPrototype(State), c)

\* processDesignElement up to its loop
FindTagDesignElement ==
    /\ FindTagAt(DesignElementKinds)
    /\ \E r \in {Do("DesignElementName", State)} :
          IF r.b
          THEN /\ Goto(r, "designElement")
               /\ kind' = token.kind
               /\ UNCHANGED c
          ELSE Iterate(r, c)

\* one iteration of the loop of line 1456
DesignElementIgnore ==
    /\ pc = "designElement"
    /\ getKindForToken(token) = K_IGNORE
    /\ \E r \in {Do("DesignElementSkipWord", State)} : Goto(r, "designElement")
    /\ UNCHANGED <<c, kind>>

\* processDesignElement from the end of its loop
DesignElementEnd ==
    /\ pc = "designElement"
    /\ getKindForToken(token) # K_IGNORE
    /\ \E r \in {DoWith("DesignElementTag", State, <<kind>>)} : Iterate(r, c)

FindTagBegin ==
    /\ FindTagAt({K_BEGIN})
    /\ Iterate(Do("processBegin", State), c)

FindTagEnd ==
    /\ FindTagAt({K_END})
    /\ Iterate(Do("processEnd", State), c)

FindTagFunction ==
    /\ FindTagAt({K_FUNCTION, K_TASK})
    /\ Iterate(Do("processFunction", State), c)

FindTagAssertion ==
    /\ FindTagAt({K_ASSERTION})
    /\ Iterate(Do("processAssertion", State), c)

FindTagDefine ==
    /\ FindTagAt({K_DEFINE})
    /\ Iterate(Do("processDefine", State), c)

FindTagDirective ==
    /\ FindTagAt({K_DIRECTIVE})
    /\ Iterate(Do("skipToNewLine", State), c)

FindTagIgnore ==
    /\ FindTagAt({K_END_DE, K_IGNORE})
    /\ Iterate(State, c)

\* the default of the switch: the token's kind is none of the cases
FindTagDefault ==
    /\ pc = "findTag"
    /\ token.kind \notin DispatchedKinds
    /\ Iterate(State, c)

\* lines 1718-1720
Return ==
    /\ pc = "eof"
    /\ pc' = "done"
    /\ currentContext' = pruneTokens(currentContext)
    /\ token' = NullContext
    /\ UNCHANGED <<Options, Invocation, pos, Ungetc, ungetcEmptyHeld,
                   tagContents, c, kind, tags, kindsUsed>>

\* the host calls findVerilogTags on the same file again: lines 1673-1676
Reinvoke ==
    /\ pc = "done"
    /\ run < MaxRuns
    /\ edit = "none"
    /\ run' = run + 1
    /\ firstTags' = IF run = 1 THEN tags ELSE firstTags
    /\ pos' = 0
    /\ token' = NewTokenAt(0)
    /\ c' = NUL
    /\ currentContext' = <<NewTokenAt(0)>>
    /\ tags' = << >>
    /\ kindsUsed' = {}
    /\ pc' = "scan"
    /\ UNCHANGED <<Options, Ungetc, ungetcEmptyHeld, tagContents, kind,
                   edit, editAt>>

\* the host inserts a comment or a string into the file it has parsed and
\* parses the file again in a new process: firstTags are the records of
\* the file as it was
Edit ==
    /\ pc = "done"
    /\ run = 1
    /\ edit = "none"
    /\ input \in EditedTexts
    /\ \E e \in {"comment", "string"}, i \in WhiteSpacePositions(input) :
          /\ edit' = e
          /\ editAt' = i
          /\ input' = Insert(input, i, Literal(e))
    /\ firstTags' = tags
    /\ pos' = 0
    /\ Ungetc' = NUL
    /\ ungetcEmptyHeld' = TRUE
    /\ currentContext' = <<NewTokenAt(0)>>
    /\ tagContents' = << >>
    /\ token' = NewTokenAt(0)
    /\ c' = NUL
    /\ tags' = << >>
    /\ kindsUsed' = {}
    /\ pc' = "scan"
    /\ UNCHANGED <<lang, xtagQualified, prototypeKind, kind, run>>

Init ==
    /\ \E f \in Files :
          /\ input = f.text
          /\ lang = f.lang
          /\ xtagQualified = f.qualified
          /\ prototypeKind = f.prototype
    /\ pos = 0
    /\ Ungetc = NUL
    /\ ungetcEmptyHeld = TRUE
    /\ currentContext = <<NewTokenAt(0)>>
    /\ tagContents = << >>
    /\ token = NewTokenAt(0)
    /\ c = NUL
    /\ kind = K_UNDEFINED
    /\ tags = << >>
    /\ kindsUsed = {}
    /\ pc = "scan"
    /\ run = 1
    /\ firstTags = << >>
    /\ edit = "none"
    /\ editAt = 0

Next ==
    \/ ScanCharacter
    \/ ScanWord
    \/ ScanColon
    \/ ScanSemiColon
    \/ ScanDelay
    \/ ScanOther
    \/ ScanUnknownWord
    \/ FindTagNameList
    \/ FindTagIdentifier
    \/ FindTagClass
    \/ FindTagTypedef
    \/ FindTagEnum
    \/ FindTagStruct
    \/ FindTagPrototype
    \/ FindTagDesignElement
    \/ DesignElementIgnore
    \/ DesignElementEnd
    \/ FindTagBegin
    \/ FindTagEnd
    \/ FindTagFunction
    \/ FindTagAssertion
    \/ FindTagDefine
    \/ FindTagDirective
    \/ FindTagIgnore
    \/ FindTagDefault
    \/ Return
    \/ Reinvoke
    \/ Edit

Spec == Init /\ [][Next]_vars


(***************************************************************************)
(* The claims                                                              *)
(***************************************************************************)
\* findVerilogTags is running: it has not yet pruned the scope stack
Scanning == pc # "done"

\* inputs in which every container is closed by its end token
ProperlyClosed ==
    { "module m;endmodule ",
      "class C #(parameter T=1);endclass ",
      "function a::f;endfunction ",
      "begin :b end ",
      "begin :b end :b ",
      "module automatic m; endmodule",
      "module m #(parameter int N=8)(input a, output b); endmodule",
      "class C extends Base; task t(); endtask endclass",
      "interface I; modport mp(input x); endinterface",
      "function automatic int foo::bar(input int x); endfunction",
      "package p; parameter P=1; localparam L=1; endpackage",
      "module m; localparam L=1; wire w; endmodule",
      "sequence s; endsequence " }

\* C1: every scope frame pushed for a container is popped when its end
\* token is read: when an input whose containers are properly nested and
\* closed has been read, the current context is again the one that was
\* current before the first container keyword, the sentinel.
ContainersPopped ==
    (pc = "eof" /\ input \in ProperlyClosed) => Len(currentContext) = 1

\* C2: while findVerilogTags is scanning, currentContext is not NULL and the
\* bottom frame of the scope stack is the sentinel, of kind K_UNDEFINED.
SentinelKept ==
    Scanning =>
        /\ currentContext # << >>
        /\ currentContext[1].kind = K_UNDEFINED

\* an end token has popped a function's frame and the class-scope frame
\* under it, and the scanner goes on with the sentinel alone
SentinelKeptAfterPops ==
    /\ pc = "scan"
    /\ token.name = "endfunction"
    /\ Len(currentContext) = 1
    /\ currentContext[1].kind = K_UNDEFINED
    /\ \E i \in DOMAIN tags : tags[i].call.classScope

\* an iteration of the loop of processDesignElement leaves the scanner as
\* it found it, ignored keyword and all: the loop never exits
LoopStandsStill ==
    /\ pc = "designElement"
    /\ getKindForToken(token) = K_IGNORE
    /\ \E r \in {DesignElementSkipWord(State)} :
          <<r.pos, r.Ungetc, r.token, r.currentContext, r.tagContents, r.tags>>
            = <<pos, Ungetc, token, currentContext, tagContents, tags>>

\* C3: findVerilogTags terminates on every finite input: every recognizer
\* loop exits, so no iteration of a loop leaves the scanner in the state
\* in which it started the iteration.
Terminates == ~LoopStandsStill

\* C4: vUngetc is never called while the pushback slot is occupied: its
\* assertion Ungetc == '\0' has held on every call.
UngetcSlotEmpty == ungetcEmptyHeld

\* C5: a second run of findVerilogTags on the same input emits the tags
\* the first run emitted.
SecondRunSameTags == (pc = "done" /\ run > 1) => tags = firstTags

\* inputs that are one lexically balanced begin/end pair
BalancedBlocks == { "begin end ", "begin :b end ", "begin :b end :b " }

\* C6: after the end of a lexically balanced begin/end pair, the nestLevel
\* of the context that was current at the begin (here the sentinel, whose
\* nestLevel was 0) has the value it had before the begin.
NestLevelRestored ==
    (pc = "eof" /\ input \in BalancedBlocks) =>
        currentContext[1].nestLevel = 0

\* C7: the nestLevel of every frame of the scope stack is non-negative.
NestLevelNonNegative ==
    \A i \in DOMAIN currentContext : currentContext[i].nestLevel >= 0

\* C10: after a `;' handled by the top-level loop no frame of the scope
\* stack has prototype set.
PrototypeClearedAtSemiColon ==
    [][ScanSemiColon =>
        \A i \in DOMAIN currentContext' : ~currentContext'[i].prototype]_vars

RECURSIVE LastDot(_, _)
LastDot(name, i) ==
    IF i = 0 THEN 0
    ELSE IF CharAt(name, i) = "." THEN i ELSE LastDot(name, i - 1)

\* the full name of a scope minus its last component, and that component
ScopeOfScope(name) ==
    IF LastDot(name, Len(name)) = 0 THEN ""
    ELSE SubSeq(name, 1, LastDot(name, Len(name)) - 1)

LastComponent(name) == SubSeq(name, LastDot(name, Len(name)) + 1, Len(name))

\* the tag of a container: of a container's kind, or of the prototype kind
\* when the container was declared under a prototype hint
ContainerTag(t) == isContainer(t.kind) \/ t.kind = K_PROTOTYPE

\* a container tag emitted before tags[i] names the scope of tags[i]
ScopeTagged(i) ==
    \E j \in 1..(i - 1) :
        /\ ContainerTag(tags[j])
        /\ tags[j].name = LastComponent(tags[i].scopeName)
        /\ tags[j].scopeName = ScopeOfScope(tags[i].scopeName)

\* C8 as stated: every tag whose scope is not the root comes after the
\* tag of the container that is its scope.
EveryScopeTagged ==
    \A i \in DOMAIN tags :
        tags[i].scopeKind # K_UNDEFINED => ScopeTagged(i)

\* C8: every tag whose scope is not the root comes after the tag of the
\* container that is its scope, unless its scope is the class-scope frame
\* that processFunction makes of the `Prefix::' of a function's name, for
\* which no tag is emitted.
EveryScopeTaggedButClassScope ==
    \A i \in DOMAIN tags :
        (tags[i].scopeKind # K_UNDEFINED /\ ~tags[i].call.classScope)
            => ScopeTagged(i)

\* a tag with a scope two frames deep, after the tags of both containers
NestedScopeTagged ==
    \E i \in DOMAIN tags :
        /\ ~tags[i].call.classScope
        /\ LastDot(tags[i].scopeName, Len(tags[i].scopeName)) > 0
        /\ ScopeTagged(i)

\* the tag came from a parameter declaration: a `parameter' statement, or
\* an entry of a #(...) list read under `parameter' (the list's default)
FromParameter(t) == t.call.kind = K_PARAMETER \/ t.call.parameter

\* the scope createTag saw is no class, no package and has no #(...) list
OverridableScope(t) ==
    /\ t.scopeKind # K_CLASS
    /\ t.scopeKind # K_PACKAGE
    /\ ~t.call.hasParamList

\* C9 as stated: a constant tag has the parameter attribute exactly when
\* it came from a parameter declaration in a scope that is no class, no
\* package and has hasParamList false.
ParameterAttributeByScope ==
    \A i \in DOMAIN tags :
        tags[i].kind = K_CONSTANT =>
            (tags[i].parameter <=>
                (FromParameter(tags[i]) /\ OverridableScope(tags[i])))

\* C9: a constant tag has the parameter attribute exactly when it is an
\* entry of a #(...) header list read under `parameter' (whatever the
\* scope, a class included), or it came from a `parameter' statement in a
\* scope that is no class, no package and has hasParamList false; a
\* localparam never has it.
ParameterAttribute ==
    \A i \in DOMAIN tags :
        tags[i].kind = K_CONSTANT =>
            (tags[i].parameter <=>
                \/ tags[i].call.kind = K_CONSTANT /\ tags[i].call.parameter
                \/ tags[i].call.kind = K_PARAMETER
                   /\ OverridableScope(tags[i]))

\* a parameter statement in the body of a module that had a #(...) list:
\* the list's entry has the attribute, the statement's name has not
ParameterAfterParamList ==
    \E i, j \in DOMAIN tags :
        /\ i < j
        /\ tags[i].kind = K_CONSTANT /\ tags[i].call.kind = K_CONSTANT
        /\ tags[i].parameter
        /\ tags[j].kind = K_CONSTANT /\ tags[j].call.kind = K_PARAMETER
        /\ tags[j].call.hasParamList
        /\ ~tags[j].parameter

\* the tag of a function or task declared under an extern or pure hint
MethodPrototype(t) ==
    /\ t.kind = K_PROTOTYPE
    /\ t.call.kind \in {K_FUNCTION, K_TASK}
    /\ ~t.qualified

\* the full name of the frame createTag pushes for the tag t
FrameName(t) ==
    IF t.scopeKind = K_UNDEFINED THEN t.name
    ELSE (t.scopeName \o ".") \o t.name

\* frame i of the scope stack was pushed for a method prototype
MethodPrototypeFrame(i) ==
    /\ currentContext[i].kind = K_PROTOTYPE
    /\ \E j \in DOMAIN tags :
          /\ MethodPrototype(tags[j])
          /\ FrameName(tags[j]) = currentContext[i].name

Emitted ==
    [ i \in DOMAIN SelectSeq(tags, LAMBDA t : ~t.qualified) |->
        << SelectSeq(tags, LAMBDA t : ~t.qualified)[i].name,
           SelectSeq(tags, LAMBDA t : ~t.qualified)[i].kind,
           SelectSeq(tags, LAMBDA t : ~t.qualified)[i].scopeName >> ]

\* the whole input has been read by a SystemVerilog run with the
\* prototype kind enabled
ReadWithPrototypes(text) ==
    /\ pc = "eof"
    /\ input = text
    /\ isInputLanguage(Lang_systemverilog)
    /\ prototypeKind

\* C12 as stated: a typedef with no body and a class declaration with no
\* body, `typedef class C;' included, each emit one tag of kind prototype,
\* and the scope stack after the `;' is the stack before the declaration.
BodilessIsPrototype ==
    /\ ReadWithPrototypes("typedef T;") =>
          Emitted = << <<"T", K_PROTOTYPE, "">> >> /\ Len(currentContext) = 1
    /\ ReadWithPrototypes("typedef class C;") =>
          Emitted = << <<"C", K_PROTOTYPE, "">> >> /\ Len(currentContext) = 1
    /\ ReadWithPrototypes("class C;") =>
          Emitted = << <<"C", K_PROTOTYPE, "">> >> /\ Len(currentContext) = 1

\* C12: a typedef with no body and the forward declaration
\* `typedef class C;' each emit one tag of kind prototype (none with the
\* prototype kind disabled), and the scope stack after the `;' is the
\* stack before the declaration; a class header `class C;' without
\* typedef emits a tag of kind class and its frame stays on the stack
\* after the `;', and `class;' emits nothing.
ForwardTypedefIsPrototype ==
    /\ ReadWithPrototypes("typedef T;") =>
          Emitted = << <<"T", K_PROTOTYPE, "">> >> /\ Len(currentContext) = 1
    /\ ReadWithPrototypes("typedef class C;") =>
          Emitted = << <<"C", K_PROTOTYPE, "">> >> /\ Len(currentContext) = 1
    /\ (pc = "eof" /\ input \in {"typedef T;", "typedef class C;"}
          /\ isInputLanguage(Lang_systemverilog) /\ ~prototypeKind) =>
          Emitted = << >> /\ Len(currentContext) = 1
    /\ (pc = "eof" /\ input = "class C;"
          /\ isInputLanguage(Lang_systemverilog)) =>
          /\ Emitted = << <<"C", K_CLASS, "">> >>
          /\ Len(currentContext) = 2
          /\ currentContext[2].name = "C"
    /\ (pc = "eof" /\ input = "class;"
          /\ isInputLanguage(Lang_systemverilog)) =>
          Emitted = << >> /\ Len(currentContext) = 1

\* the forward declaration of a class has been read to its `;' and has
\* left its prototype tag and the sentinel alone
ForwardTypedefRead ==
    /\ ReadWithPrototypes("typedef class C;")
    /\ Emitted = << <<"C", K_PROTOTYPE, "">> >>
    /\ Len(currentContext) = 1
    /\ ~currentContext[1].prototype

\* the name, kind, scope, inheritance and parameter attribute of each
\* record of a tag stream: all but the position in the file
Stream(ts) ==
    [ i \in DOMAIN ts |->
        << ts[i].name, ts[i].kind, ts[i].scopeKind, ts[i].scopeName,
           ts[i].inheritance, ts[i].parameter, ts[i].qualified >> ]

\* the file before the host's edit
Unedited ==
    SubSeq(input, 1, editAt)
        \o SubSeq(input, editAt + Len(Literal(edit)) + 1, Len(input))

\* where, lexically, the character ch takes a reader who is in mode m:
\* in code, in code after a `/', in a line comment, in a block comment,
\* in a block comment after a `*', or in a string
LexicalStep(m, ch) ==
    CASE m = "code" ->
            IF ch = "/" THEN "slash" ELSE IF ch = "\"" THEN "string"
            ELSE "code"
      [] m = "slash" ->
            IF ch = "/" THEN "line" ELSE IF ch = "*" THEN "block"
            ELSE IF ch = "\"" THEN "string" ELSE "code"
      [] m = "line" -> IF ch = "\n" THEN "code" ELSE "line"
      [] m = "block" -> IF ch = "*" THEN "star" ELSE "block"
      [] m = "star" ->
            IF ch = "/" THEN "code" ELSE IF ch = "*" THEN "star"
            ELSE "block"
      [] OTHER -> IF ch = "\"" THEN "code" ELSE "string"

RECURSIVE LexicalMode(_, _)
\* the mode of a reader of text after i characters
LexicalMode(text, i) ==
    IF i = 0 THEN "code"
    ELSE LexicalStep(LexicalMode(text, i - 1), CharAt(text, i))

\* the host's edit was made in code, outside every comment and string,
\* and not right after a `/' or a backslash
EditedInCode ==
    /\ LexicalMode(Unedited, editAt) = "code"
    /\ editAt >= 1 => CharAt(Unedited, editAt) # "\\"

\* C13 as stated: a block comment inserted at a position next to white
\* space does not change the emitted tag stream.
CommentChangesNothing ==
    (pc = "done" /\ edit = "comment") => Stream(tags) = Stream(firstTags)

\* C14 as stated: a string literal inserted at a position next to white
\* space does not change the emitted tag stream.
StringChangesNothing ==
    (pc = "done" /\ edit = "string") => Stream(tags) = Stream(firstTags)

\* C13: a block comment inserted at a position next to white space that
\* is in code (outside every comment and string, and not right after a `/'
\* or a backslash) does not change the emitted tag stream but for the
\* positions in the file.
CommentInCodeChangesNothing ==
    (pc = "done" /\ edit = "comment" /\ EditedInCode) =>
        Stream(tags) = Stream(firstTags)

\* a file with a comment inserted into the header of a module has been
\* parsed, and has tags
CommentInHeaderParsed ==
    /\ pc = "done"
    /\ edit = "comment"
    /\ EditedInCode
    /\ input = "module m #(parameter /* c */int N=8)(input a, output b); endmodule"
    /\ Len(tags) >= 4

RECURSIVE LastCode(_, _)
\* the last character of the first i of text that is no white space
LastCode(text, i) ==
    IF i = 0 THEN ""
    ELSE IF isspace(CharAt(text, i)) THEN LastCode(text, i - 1)
    ELSE CharAt(text, i)

\* C14: the scanner sees a string literal as the character `@', which is
\* no white space.  A string literal inserted between two statements, at
\* a position next to white space that is in code and follows the `;' of
\* a statement, does not change the emitted tag stream but for the
\* positions in the file.
StringAfterStatementChangesNothing ==
    (/\ pc = "done"
     /\ edit = "string"
     /\ LexicalMode(Unedited, editAt) = "code"
     /\ LastCode(Unedited, editAt) = ";") =>
        Stream(tags) = Stream(firstTags)

\* a file with a string inserted after the `;' of a module's header has
\* been parsed, and has the tags of the module and of the net in it
StringAfterHeaderParsed ==
    /\ pc = "done"
    /\ edit = "string"
    /\ input = "module m; \"s\"wire w; endmodule"
    /\ LastCode(Unedited, editAt) = ";"
    /\ Len(tags) >= 2

\* C15: for `typedef enum { A, B=2, C } e_t;' the tag stream is the typedef
\* tag e_t followed by one constant tag per member, each with scope e_t,
\* in source order A, B, C.
EnumMembersInSourceOrder ==
    (pc = "eof" /\ input = "typedef enum { A, B=2, C } e_t;"
        /\ isInputLanguage(Lang_systemverilog)) =>
        Emitted = << <<"e_t", K_TYPEDEF, "">>, <<"A", K_CONSTANT, "e_t">>,
                     <<"B", K_CONSTANT, "e_t">>, <<"C", K_CONSTANT, "e_t">> >>

\* the tag stream without the records of the qualified extra: the name,
\* the kind, the scope's name and the parameter attribute of each record
EmittedWithAttribute ==
    [ i \in DOMAIN SelectSeq(tags, LAMBDA t : ~t.qualified) |->
        << SelectSeq(tags, LAMBDA t : ~t.qualified)[i].name,
           SelectSeq(tags, LAMBDA t : ~t.qualified)[i].kind,
           SelectSeq(tags, LAMBDA t : ~t.qualified)[i].scopeName,
           SelectSeq(tags, LAMBDA t : ~t.qualified)[i].parameter >> ]

\* C16: a module with a `#(parameter ...)' header list and an ANSI port
\* list emits, in order, the module tag, one constant tag per header
\* parameter with the module as its scope and the parameter attribute, one
\* port tag per port with the module as its scope, and no other tag.
HeaderParametersThenPorts ==
    /\ (pc = "eof" /\ isInputLanguage(Lang_systemverilog)
          /\ input = "module m #(parameter int N=8)(input a, output b); endmodule") =>
          EmittedWithAttribute =
             << <<"m", K_MODULE, "", FALSE>>, <<"N", K_CONSTANT, "m", TRUE>>,
                <<"a", K_PORT, "m", FALSE>>, <<"b", K_PORT, "m", FALSE>> >>
    /\ (pc = "eof" /\ isInputLanguage(Lang_systemverilog)
          /\ input = "module m #(parameter my_t NN=8)(input a); endmodule") =>
          EmittedWithAttribute =
             << <<"m", K_MODULE, "", FALSE>>, <<"NN", K_CONSTANT, "m", TRUE>>,
                <<"a", K_PORT, "m", FALSE>> >>

\* a method tag of that name and kind was emitted with a scope of kind
\* class named by the prefix
MethodOfPrefix(name, methodKind, prefix) ==
    \E i \in DOMAIN tags :
        /\ tags[i].name = name
        /\ tags[i].kind = methodKind
        /\ tags[i].scopeKind = K_CLASS
        /\ tags[i].scopeName = prefix

\* C17: for a function or task header with a `Prefix::name', the method
\* tag has a class scope named by the prefix, and after the matching
\* endfunction or endtask the scope stack is the stack before the
\* `function' or `task' keyword (here the sentinel alone): every
\* class-scope frame pushed for the header has been popped.
ClassScopeFramesPopped ==
    /\ (pc = "eof" /\ isInputLanguage(Lang_systemverilog)
          /\ input = "function automatic int foo::bar(input int x); endfunction") =>
          MethodOfPrefix("bar", K_FUNCTION, "foo") /\ Len(currentContext) = 1
    /\ (pc = "eof" /\ isInputLanguage(Lang_systemverilog)
          /\ input = "function a::f;endfunction ") =>
          MethodOfPrefix("f", K_FUNCTION, "a") /\ Len(currentContext) = 1
    /\ (pc = "eof" /\ isInputLanguage(Lang_systemverilog)
          /\ input = "function a::b::f; endfunction ") =>
          MethodOfPrefix("f", K_FUNCTION, "a.b") /\ Len(currentContext) = 1

\* C18: an input that consists of compiler directives, ~define lines and
\* macro invocations only emits one constant tag per ~define, named by the
\* macro, and nothing else: a directive or a macro invocation, with or
\* without arguments in parentheses, emits no tag.
OnlyDefinesTagged ==
    /\ (pc = "eof" /\ input = "~define WIDTH 32") =>
          Emitted = << <<"WIDTH", K_CONSTANT, "">> >>
    /\ (pc = "eof" /\ input = "~ifdef X\n~endif") => Emitted = << >>
    /\ (pc = "eof" /\ input = "~define WIDTH 32\n~FOO(wire w)\n~endif") =>
          Emitted = << <<"WIDTH", K_CONSTANT, "">> >>

\* the tag stream without the records of the qualified extra: the name,
\* the kind, the scope's name and the inheritance of each record
EmittedWithInheritance ==
    [ i \in DOMAIN SelectSeq(tags, LAMBDA t : ~t.qualified) |->
        << SelectSeq(tags, LAMBDA t : ~t.qualified)[i].name,
           SelectSeq(tags, LAMBDA t : ~t.qualified)[i].kind,
           SelectSeq(tags, LAMBDA t : ~t.qualified)[i].scopeName,
           SelectSeq(tags, LAMBDA t : ~t.qualified)[i].inheritance >> ]

\* C19: for `class C extends Base; ... endclass', with or without a
\* `#(...)' list before `extends', the class tag C carries the inheritance
\* Base and no other tag carries an inheritance, each parameter of the
\* header is emitted after the class tag as a constant with scope C, and
\* the members declared before `endclass' are emitted with scope C; in
\* every run only a tag of kind class carries an inheritance.
ClassInheritance ==
    /\ \A i \in DOMAIN tags :
          tags[i].inheritance # "" => tags[i].kind = K_CLASS
    /\ (pc = "eof" /\ isInputLanguage(Lang_systemverilog)
          /\ input = "class C extends Base; task t(); endtask endclass") =>
          EmittedWithInheritance =
             << <<"C", K_CLASS, "", "Base">>, <<"t", K_TASK, "C", "">> >>
    /\ (pc = "eof" /\ isInputLanguage(Lang_systemverilog)
          /\ input = "class C #(parameter T=1, N=2) extends Base; int x; task t(); endtask endclass") =>
          EmittedWithInheritance =
             << <<"C", K_CLASS, "", "Base">>, <<"T", K_CONSTANT, "C", "">>,
                <<"N", K_CONSTANT, "C", "">>, <<"x", K_REGISTER, "C", "">>,
                <<"t", K_TASK, "C", "">> >>

\* the class with a parameter list has been read to its endclass: its tag
\* carries the base class, its parameters and members have scope C
ClassWithParametersRead ==
    /\ pc = "eof"
    /\ isInputLanguage(Lang_systemverilog)
    /\ input = "class C #(parameter T=1, N=2) extends Base; int x; task t(); endtask endclass"
    /\ Len(tags) >= 5
    /\ tags[1].name = "C" /\ tags[1].inheritance = "Base"
    /\ \E i \in DOMAIN tags : tags[i].name = "N" /\ tags[i].scopeName = "C"
    /\ \E i \in DOMAIN tags : tags[i].name = "t" /\ tags[i].scopeName = "C"

\* tags[i] is the second record of a call of createTag: the record before
\* it with the name qualified by the scope, and the qualified bit
SecondRecord(i) ==
    /\ i > 1
    /\ ~tags[i - 1].qualified
    /\ tags[i] = [tags[i - 1] EXCEPT
                     !.name = (tags[i - 1].scopeName \o ".") \o @,
                     !.qualified = TRUE]

\* C20: a call of createTag that emits a tag emits one record when the
\* qualified extra is disabled or the current context is the root, and two
\* otherwise; the second record differs from the first only in its name,
\* which is the current context's full name, a dot and the token's name,
\* and in the qualified bit; the name of every frame above the sentinel is
\* its parent's name, a dot and its own local name, and the local name
\* alone when the parent is the sentinel.
QualifiedRecords ==
    /\ \A i \in DOMAIN tags :
          /\ tags[i].qualified =>
                /\ xtagQualified
                /\ tags[i].scopeKind # K_UNDEFINED
                /\ SecondRecord(i)
          /\ (~tags[i].qualified /\ xtagQualified
                 /\ tags[i].scopeKind # K_UNDEFINED) =>
                i + 1 \in DOMAIN tags /\ SecondRecord(i + 1)
    /\ \A i \in DOMAIN currentContext :
          i > 1 =>
             /\ LastComponent(currentContext[i].name) # ""
             /\ ScopeOfScope(currentContext[i].name) =
                   currentContext[i - 1].name

\* under the qualified extra the port x of foo::bar has been emitted
\* twice, the second time as foo.bar.x, with the frames foo and foo.bar on
\* the scope stack
QualifiedPortEmitted ==
    /\ xtagQualified
    /\ Len(currentContext) = 3
    /\ currentContext[2].name = "foo"
    /\ currentContext[3].name = "foo.bar"
    /\ \E i \in DOMAIN tags :
          /\ tags[i].qualified
          /\ tags[i].name = "foo.bar.x"
          /\ tags[i - 1].name = "x"
          /\ tags[i - 1].scopeName = "foo.bar"

\* C21: with the qualified extra disabled, no two emitted tags that come
\* from the same position of the input have the same name, scope and kind.
NoDuplicateTags ==
    ~xtagQualified =>
        \A i, j \in DOMAIN tags :
            (i < j /\ tags[i].filePosition = tags[j].filePosition) =>
                << tags[i].name, tags[i].scopeKind, tags[i].scopeName,
                   tags[i].kind >>
                # << tags[j].name, tags[j].scopeKind, tags[j].scopeName,
                     tags[j].kind >>

\* C22: the label stored in blockName by `label :' is consumed by the
\* assertion that it names: after `a1: assert (x);' has emitted the
\* assertion tag a1, a later assert in the same scope with no label before
\* it emits no assertion tag.
LabelConsumedByAssertion ==
    (pc = "eof" /\ input = "a1: assert (x); assert (y);"
        /\ isInputLanguage(Lang_systemverilog)) =>
        Emitted = << <<"a1", K_ASSERTION, "">> >>

\* C23: when findVerilogTags returns, whatever the input, the scope stack
\* is freed and currentContext is null, the pushback slot is empty and
\* the queue tagContents is empty.
TornDownAtReturn ==
    pc = "done" =>
        /\ currentContext = << >>
        /\ Ungetc = NUL
        /\ tagContents = << >>

\* the word the loop of findVerilogTags is about to read, with its kind
WordRead == Do("updateKind", Do("readWordToken", Do("NextChar", State))).token

\* the frame that is current
CurrentFrame == currentContext[Len(currentContext)]

\* the three rules of dropEndContext on the current frame and the word read
CovergroupRule ==
    CurrentFrame.kind = K_COVERGROUP /\ WordRead.name = "endgroup"

BlockRule ==
    /\ CurrentFrame.kind = K_BLOCK
    /\ CurrentFrame.nestLevel = 0
    /\ WordRead.kind = K_END

EndOfKindRule ==
    /\ ~CovergroupRule
    /\ ~BlockRule
    /\ WordRead.name = "end" \o getNameForKind(CurrentFrame.kind)

\* the scope stack without its n topmost frames
WithoutFrames(n) == SubSeq(currentContext, 1, Len(currentContext) - n)

\* C24: when the word read is an END or END_DE token, the scope stack and
\* the fields of its frames are unchanged if none of the three rules of
\* dropEndContext matches; if the rule of "end" and the kind's name
\* matches, one frame is popped, and one more exactly when the frame under
\* it is a class-scope frame; under the two other rules one frame is
\* popped.
DropEndContextFrameEffect ==
    [][(/\ pc = "scan" /\ pc' = "findTag"
        /\ WordRead.kind \in {K_END, K_END_DE}) =>
          IF CurrentFrame.kind = K_UNDEFINED
          THEN currentContext' = currentContext
          ELSE /\ ~(CovergroupRule \/ BlockRule \/ EndOfKindRule) =>
                     currentContext' = currentContext
               /\ (CovergroupRule \/ BlockRule) =>
                     currentContext' = WithoutFrames(1)
               /\ EndOfKindRule =>
                     currentContext' =
                        IF currentContext[Len(currentContext) - 1].classScope
                        THEN WithoutFrames(2) ELSE WithoutFrames(1)]_vars

\* endfunction has popped the frame of the method a::b::f and the
\* class-scope frame a.b under it, and no other frame
EndfunctionPoppedTwo ==
    /\ pc = "findTag"
    /\ input = "function a::b::f; endfunction "
    /\ token.name = "endfunction"
    /\ Len(currentContext) = 2
    /\ currentContext[2].name = "a"

\* the records of tags' that the step has appended, without those of the
\* qualified extra
NewTags ==
    SelectSeq(SubSeq(tags', Len(tags) + 1, Len(tags')),
              LAMBDA t : ~t.qualified)

\* a label follows the `begin' that findTag is about to process
BeginIsLabelled == Do("findBlockName", State).b

\* C25 as stated: `begin' or `fork' followed by `: label' emits one block
\* tag named by the label, scoped to the current context, and pushes one
\* frame of kind block with nestLevel 0; without a label it emits no tag
\* and pushes no frame; in both cases the nestLevel of the context that
\* was current is incremented by one.
BeginEffectAlways ==
    [][(pc = "findTag" /\ token.kind = K_BEGIN) =>
          /\ currentContext'[Len(currentContext)].nestLevel =
                CurrentFrame.nestLevel + 1
          /\ SubSeq(currentContext', 1, Len(currentContext) - 1) =
                WithoutFrames(1)
          /\ IF BeginIsLabelled
             THEN /\ Len(currentContext') = Len(currentContext) + 1
                  /\ currentContext'[Len(currentContext')].kind = K_BLOCK
                  /\ currentContext'[Len(currentContext')].nestLevel = 0
                  /\ Len(NewTags) = 1
                  /\ NewTags[1].kind = K_BLOCK
                  /\ NewTags[1].name = token'.name
                  /\ NewTags[1].scopeName = CurrentFrame.name
             ELSE /\ Len(currentContext') = Len(currentContext)
                  /\ tags' = tags]_vars

\* the kind createTag gives to a labelled block in the current context, and
\* whether it emits the tag
BlockKind == IF CurrentFrame.prototype THEN K_PROTOTYPE ELSE K_BLOCK

BlockEmitted == ~CurrentFrame.prototype \/ prototypeKind

\* C25: `begin' or `fork' increments the nestLevel of the current context
\* by one; followed by `: label', and in a context whose prototype flag is
\* clear, it emits one block tag named by the label, scoped to the current
\* context, and pushes one frame of kind block with nestLevel 0; in a
\* context whose prototype flag is set the tag and the frame are of kind
\* prototype, and there is neither a tag nor a frame when that kind is
\* disabled; without a label there is no tag and no frame.
BeginEffect ==
    [][(pc = "findTag" /\ token.kind = K_BEGIN) =>
          /\ currentContext'[Len(currentContext)].nestLevel =
                CurrentFrame.nestLevel + 1
          /\ SubSeq(currentContext', 1, Len(currentContext) - 1) =
                WithoutFrames(1)
          /\ IF BeginIsLabelled /\ BlockEmitted
             THEN /\ Len(currentContext') = Len(currentContext) + 1
                  /\ currentContext'[Len(currentContext')].kind = BlockKind
                  /\ currentContext'[Len(currentContext')].nestLevel = 0
                  /\ Len(NewTags) = 1
                  /\ NewTags[1].kind = BlockKind
                  /\ NewTags[1].name = token'.name
                  /\ NewTags[1].scopeName = CurrentFrame.name
             ELSE /\ Len(currentContext') = Len(currentContext)
                  /\ tags' = tags]_vars

\* the labelled block b has been opened inside the module m: its tag is
\* scoped to m, its frame has nestLevel 0 and m has nestLevel 1
LabelledBlockOpened ==
    /\ Len(currentContext) = 3
    /\ currentContext[2].name = "m"
    /\ currentContext[2].nestLevel = 1
    /\ currentContext[3].kind = K_BLOCK
    /\ currentContext[3].nestLevel = 0
    /\ tags # << >>
    /\ tags[Len(tags)].kind = K_BLOCK
    /\ ~tags[Len(tags)].qualified
    /\ tags[Len(tags)].scopeName = "m"

\* C26: in a `#( ... )' list every identifier followed by `,', `)' or `='
\* is captured as one constant named by the whole identifier, with the
\* polarity of the list as its parameter attribute, and a user-defined
\* type before a parameter's name is ignored without effect on the capture
\* of the name.
UserTypeIgnoredInParameterList ==
    /\ (pc = "eof" /\ isInputLanguage(Lang_systemverilog)
          /\ input = "class C #(type T=int, my_t N=1, M); endclass") =>
          EmittedWithAttribute =
             << <<"C", K_CLASS, "", FALSE>>, <<"T", K_CONSTANT, "C", TRUE>>,
                <<"N", K_CONSTANT, "C", TRUE>>,
                <<"M", K_CONSTANT, "C", TRUE>> >>
    /\ (pc = "eof" /\ isInputLanguage(Lang_systemverilog)
          /\ input = "module m #(parameter my_t NN=8)(input a); endmodule") =>
          \E i \in DOMAIN tags :
              /\ tags[i].name = "NN"
              /\ tags[i].kind = K_CONSTANT
              /\ tags[i].parameter

\* the frames of the scope stack before the step are those under the same
\* indices after it, but for lastKind, which createTag records, and the
\* prototype flag, which processTypedef sets
FramesKept ==
    /\ Len(currentContext') >= Len(currentContext)
    /\ \A i \in DOMAIN currentContext :
          [currentContext'[i] EXCEPT !.lastKind = currentContext[i].lastKind,
                                     !.prototype = currentContext[i].prototype]
             = currentContext[i]

\* findTag is about to process a typedef or an enum, whose names createTag
\* tags with a temporary container kind
AtTemporaryContainer == pc = "findTag" /\ token.kind \in {K_TYPEDEF, K_ENUM}

\* C27 as stated: createTag for a typedef or an enum leaves the scope stack
\* as it was before the call, the frame it creates being dropped before it
\* returns, whatever the prototype flag of the current context.
TemporaryFrameDroppedAlways ==
    [][AtTemporaryContainer =>
          FramesKept /\ Len(currentContext') = Len(currentContext)]_vars

\* C27: createTag for a typedef or an enum leaves the scope stack as it
\* was before the call when the prototype flag of the current context is
\* clear or the prototype kind is disabled; with the flag set and the kind
\* enabled the frame it creates is of kind prototype and stays on the
\* stack when createTag returns.
TemporaryFrameDropped ==
    [][AtTemporaryContainer =>
          /\ FramesKept
          /\ Len(currentContext') <= Len(currentContext) + 1
          /\ (~prototypeKind \/ ~currentContext'[Len(currentContext)].prototype)
                => Len(currentContext') = Len(currentContext)
          /\ Len(currentContext') > Len(currentContext) =>
                currentContext'[Len(currentContext')].kind = K_PROTOTYPE]_vars

\* the typedef e_t and its members have been tagged, the members in the
\* scope e_t, and the frame e_t is no longer on the scope stack
TypedefFrameDropped ==
    /\ input = "typedef enum { A, B=2, C } e_t;"
    /\ isInputLanguage(Lang_systemverilog)
    /\ pc = "scan"
    /\ Len(currentContext) = 1
    /\ Len(tags) = 4
    /\ tags[1].kind = K_TYPEDEF
    /\ tags[4].scopeName = "e_t"

\* C28: each member of an enum is emitted as a child tag once per enum
\* declaration: after the members have been emitted in the scope of the
\* first declarator of `enum {A} x, y;', the tag of the second declarator
\* does not emit them again.
EnumMembersEmittedOnce ==
    (pc = "eof" /\ input = "enum {A} x, y;"
        /\ isInputLanguage(Lang_systemverilog)) =>
        Emitted = << <<"x", K_ENUM, "">>, <<"A", K_CONSTANT, "x">>,
                     <<"y", K_ENUM, "">> >>

\* the position of the first `;' of the text at or after position i, and
\* one past the end of the text if there is none
RECURSIVE FirstSemiColon(_, _)
FirstSemiColon(text, i) ==
    IF i > Len(text) THEN Len(text) + 1
    ELSE IF CharAt(text, i) = ";" THEN i
    ELSE FirstSemiColon(text, i + 1)

\* the position of the `;' that terminates the declaration findTag is
\* about to process: the first one not yet taken by the scanner
Terminator ==
    FirstSemiColon(input, IF Ungetc = NUL THEN pos + 1 ELSE pos)

\* texts with no comment, string or directive, in which every `;' ends a
\* declaration or a statement
PlainDeclarations ==
    { text \in Texts :
        \A i \in 1..Len(text) : CharAt(text, i) \notin {"/", "\"", "~"} }

\* C29: every recognizer dispatched from findTag returns with the `;' that
\* terminates its declaration unread or pushed back, so that the `;'
\* handler of the top-level loop runs for it.
TerminatorLeftToLoop ==
    [][(pc = "findTag" /\ input \in PlainDeclarations
           /\ Terminator <= Len(input)) =>
          \/ pos' < Terminator
          \/ pos' = Terminator /\ Ungetc' = ";"]_vars

\* C30: in the name list a module instantiation `type name ( ... );', with
\* or without a `#(...)' override or a dimension of the instance, emits no
\* tag, and neither does a procedural assignment `name = expr;' or
\* `name <= expr;'; `type name;', `type name, name2;' and
\* `type name = expr;' emit one tag per declared name.
InstancesAndAssignmentsNotTagged ==
    /\ (pc = "eof"
          /\ input = "foo u1(a, b); foo #(1) u2[3:0](a); x = 1; y <= 2; wire w;") =>
          Emitted = << <<"w", K_NET, "">> >>
    /\ (pc = "eof"
          /\ input = "wire w; wire a, b; wire c = 1; my_t d; my_t e, f; my_t g = 2;") =>
          Emitted = << <<"w", K_NET, "">>, <<"a", K_NET, "">>,
                       <<"b", K_NET, "">>, <<"c", K_NET, "">>,
                       <<"d", K_REGISTER, "">>, <<"e", K_REGISTER, "">>,
                       <<"f", K_REGISTER, "">>, <<"g", K_REGISTER, "">> >>

\* the instantiations and the assignments have been read without a tag,
\* and the declaration after them has been tagged
InstancesRead ==
    /\ pc = "eof"
    /\ input = "foo u1(a, b); foo #(1) u2[3:0](a); x = 1; y <= 2; wire w;"
    /\ Len(tags) = 1
    /\ tags[1].name = "w"

\* the kind updateKind gives to a word the scanner has just read into a
\* new token
KindOfWord(word) ==
    Do("updateKind",
       [State EXCEPT !.token = [newToken(State) EXCEPT !.name = word]])
        .token.kind

\* the index of the input language in isValid
LanguageIdx ==
    IF isInputLanguage(Lang_systemverilog) THEN IDX_SYSTEMVERILOG
    ELSE IDX_VERILOG

\* the entries of KeywordTable with the keyword word
TableEntries(word) ==
    { i \in DOMAIN KeywordTable : KeywordTable[i].keyword = word }

\* updateKind gives every keyword of KeywordTable valid for the input
\* language the kind of the table, and no keyword of KeywordTable that is
\* not valid for it the kind of the table
TableKindsKept ==
    \A i \in DOMAIN KeywordTable :
        IF KeywordTable[i].isValid[LanguageIdx + 1] = 1
        THEN KindOfWord(KeywordTable[i].keyword) = KeywordTable[i].kind
        ELSE KindOfWord(KeywordTable[i].keyword) # KeywordTable[i].kind

\* C31: for each language, updateKind classifies every keyword of
\* KeywordTable valid for the language with the kind of the table, never
\* with the IGNORE or DIRECTIVE of the keyword groups added after it, and
\* classifies no keyword of the table that is not valid for the language
\* with the kind of the table: for the whole table when the scan of a file
\* starts, and for each word findTag is given.
KeywordTableKinds ==
    /\ (pc = "scan" /\ pos = 0) => TableKindsKept
    /\ pc = "findTag" =>
          \A i \in TableEntries(token.name) :
              IF KeywordTable[i].isValid[LanguageIdx + 1] = 1
              THEN token.kind = KeywordTable[i].kind
              ELSE token.kind # KeywordTable[i].kind

\* findTag has been given `begin', classified as BEGIN and not as the
\* IGNORE of the keyword group, in a file of the Verilog language
BeginClassified ==
    /\ pc = "findTag"
    /\ isInputLanguage(Lang_verilog)
    /\ token.name = "begin"
    /\ token.kind = K_BEGIN

\* C32: the delay skip of the top-level loop consumes the delay and white
\* space only: the first character after the delay still reaches the loop,
\* so the word after `#10' is read whole and dispatched, and `wire w;'
\* after a delay declares the net w.
DelayedWordIntact ==
    (pc = "eof" /\ input = "#10 wire w;") =>
        Emitted = << <<"w", K_NET, "">> >>

\* the kinds of the scope frames the claim is about
ScopeKinds ==
    { K_MODULE, K_INTERFACE, K_PACKAGE, K_PROGRAM, K_PROPERTY, K_COVERGROUP,
      K_CLASS, K_FUNCTION, K_TASK }

\* the keywords of KeywordTable valid for the input language that open a
\* scope of one of these kinds
ScopeOpeners ==
    { i \in DOMAIN KeywordTable :
        /\ KeywordTable[i].isValid[LanguageIdx + 1] = 1
        /\ KeywordTable[i].kind \in ScopeKinds }

\* the keyword that closes the scope a keyword opens
ClosingKeyword(word) ==
    IF word = "covergroup" THEN "endgroup" ELSE "end" \o word

\* findTag, given the closing keyword in a frame of the kind the opening
\* keyword KeywordTable[i] pushes, pops the frame
Closes(i) ==
    LET closing == ClosingKeyword(KeywordTable[i].keyword)
        opened  == createContext(State, KeywordTable[i].kind, "s")
        atEnd   == [opened EXCEPT !.token =
                       [newToken(State) EXCEPT !.name = closing,
                                               !.kind = KindOfWord(closing)]]
    IN  /\ KindOfWord(closing) \in {K_END, K_END_DE}
        /\ Do("EndOfContext", atEnd).currentContext = State.currentContext

\* C33: for every keyword that makes findTag push a non-temporary scope
\* frame, the keyword tables of the language classify the closing keyword
\* as END or END_DE and dropEndContext pops a frame of that kind on it, so
\* that the frame pushed by the opening keyword is gone after the closing
\* keyword (as for `sequence s; endsequence').
EveryScopeHasClosingKeyword ==
    /\ (pc = "scan" /\ pos = 0) => \A i \in ScopeOpeners : Closes(i)
    /\ (pc = "eof" /\ input = "sequence s; endsequence ") =>
          Len(currentContext) = 1

\* the number of entries of the kind table of the input language
KindTableSize ==
    IF isInputLanguage(Lang_systemverilog) THEN Len(SystemVerilogKinds)
    ELSE Len(VerilogKinds)

\* C34: every kind used to index a kind table, in kindEnabled from
\* createTag and in getNameForKind from dropEndContext, is a valid index
\* for the input language: it is never negative (the Assert of createTag
\* holds), it is below 21 for SystemVerilog and below 9 for Verilog, where
\* no tag and no scope frame has a kind of SystemVerilog only.
KindIndexValid ==
    /\ \A k \in kindsUsed : 0 <= k /\ k < KindTableSize
    /\ \A i \in DOMAIN tags : tags[i].kind \in 0..(KindTableSize - 1)
    /\ \A i \in DOMAIN currentContext :
          currentContext[i].kind \in (0..(KindTableSize - 1)) \cup {K_UNDEFINED}
    /\ KindTableSize = IF isInputLanguage(Lang_verilog) THEN 9 ELSE 21

\* a Verilog file has been read in which createTag was called for a
\* module and for a labelled block, the last kind of VerilogKinds, and
\* has emitted the block
VerilogKindsIndexed ==
    /\ pc = "eof"
    /\ isInputLanguage(Lang_verilog)
    /\ {K_BLOCK, K_MODULE} \subseteq kindsUsed
    /\ \E i \in DOMAIN tags : tags[i].kind = K_BLOCK
=============================================================================
